---- MODULE Spec2Model ----
(***************************************************************************)
(* A model of overlook: a lattice maze that is generated (five generators), *)
(* solved (four solvers) and walked backward, one step per animation frame. *)
(*                                                                         *)
(* Data representation                                                     *)
(*   Node        <<x, y>>                                                  *)
(*   Direction   "North" | "South" | "East" | "West"                       *)
(*   Edge        [from |-> Node, to |-> Node, direction |-> Direction]     *)
(*   Option<T>   <<>> (None) or <<v>> (Some(v)) for edges; NoNode for an   *)
(*               absent node; None (-1) for an absent number               *)
(*   Buffer<T,U> a function from the normalised index 0..bound-1 to U      *)
(*   Vec / VecDeque / ArrayVec   sequences                                 *)
(* Random draws are inputs of the operators (parameters named rng...),     *)
(* chosen by the actions with \E.                                          *)
(***************************************************************************)
EXTENDS Integers, Sequences, FiniteSets, TLC

VARIABLES
    state,      \* State<T>: maze, settings, age, visited_count, colours, phase
    algorithm,  \* the Animation instance in flight (a record tagged by kind)
    signal,     \* the Signal last returned by step: "None" | "Continue" | "Done"
    pc,         \* position in main::inner and in Animation::run
    result,     \* inner()'s return, lines printed to stderr, the terminal's mode
    frames,     \* Continue signals of the run in flight (bounded by MaxFrames)
    outcome,    \* history: the branch the last step call took
    settled,    \* history: edge indices of Wilson walks that joined the tree
    probe       \* arguments and results of the last pure-function call

vars == <<state, algorithm, signal, pc, result, frames, outcome, settled, probe>>

----------------------------------------------------------------------------
(* Bounds of the model *)

MaxWidth == 3
MaxHeight == 3
MaxCells == 9
\* Kruskal draws one of the (number of edges)! shuffles when it is constructed
KruskalMaxCells == 6
\* Prim's frontier keeps its order and its duplicates
PrimMaxCells == 4
\* Mouse walks at random
MouseMaxCells == 6
MaxFrames == 9
\* the Continue signals counted in a RightHand walk: one more than twice the
\* edges of the largest tree
RightHandMaxFrames == 17
PipelineMaxCells == 4

(* Program constants *)

\* u8::MAX, where State::step's saturating_add stops
U8Max == 255
\* Fade's default STEPS
FadeSteps == 255
\* Fade::<T, 5> in flash_between
FlashDelay == 5
\* stands for usize::MAX, the result of 0usize.wrapping_sub(1); TLC's integers
\* do not reach 2^64 - 1 and the value is only ever compared with a width or
\* height, or stored as the initial g_score
UsizeMax == 2147483647

None == -1
NoNode == <<>>

Dims == {d \in (2..MaxWidth) \X (2..MaxHeight) : d[1] * d[2] <= MaxCells}

Min(a, b) == IF a < b THEN a ELSE b

----------------------------------------------------------------------------
(* maze.rs: Direction *)

Direction == {"North", "South", "East", "West"}

Direction_ALL == <<"North", "East", "South", "West">>

Direction_clockwise(d) ==
    CASE d = "North" -> "East"
      [] d = "South" -> "West"
      [] d = "East"  -> "South"
      [] d = "West"  -> "North"

Direction_reverse(d) ==
    CASE d = "North" -> "South"
      [] d = "South" -> "North"
      [] d = "East"  -> "West"
      [] d = "West"  -> "East"

\* the turn is left out: the direction is only reversed
Direction_anti_clockwise_reversed(d) == Direction_reverse(d)

Direction_anti_clockwise(d) == Direction_reverse(Direction_clockwise(d))

\* the discriminant a derived Hash feeds to the hasher for a fieldless enum
Direction_discriminant(d) ==
    CASE d = "North" -> 0
      [] d = "South" -> 1
      [] d = "East"  -> 2
      [] d = "West"  -> 3

----------------------------------------------------------------------------
(* maze.rs: Node, Edge and their normalisation *)

Node_bound(maze_width, maze_height) == maze_width * maze_height

Node_normalise_swapped(node, maze_width) == node[1] * maze_width + node[2]

Node_normalise(node, maze_width) == node[1] + node[2] * maze_width

Node_manhattan(a, b) ==
    (IF a[1] >= b[1] THEN a[1] - b[1] ELSE b[1] - a[1]) +
    (IF a[2] >= b[2] THEN a[2] - b[2] ELSE b[2] - a[2])

\* derive(PartialOrd, Ord) on Node(usize, usize): lexicographic
Node_lt(a, b) == a[1] < b[1] \/ (a[1] = b[1] /\ a[2] < b[2])

Edge_identity(node) == [from |-> node, to |-> node, direction |-> "North"]

Edge_reverse(e) ==
    [from |-> e.to, to |-> e.from, direction |-> Direction_reverse(e.direction)]

Edge_eq_directed(a, b) == <<a.from, a.to>> = <<b.from, b.to>>

Edge_eq(a, b) ==
    \/ <<a.from, a.to>> = <<b.from, b.to>>
    \/ <<a.from, a.to>> = <<b.to, b.from>>

\* derive(Hash) on Edge: the fields are fed to the hasher in declaration order
Edge_hash(e) ==
    <<e.from[1], e.from[2], e.to[1], e.to[2], Direction_discriminant(e.direction)>>

Edge_bound(maze_width, maze_height) == 2 * maze_width * maze_height

\* The owner's coordinates are computed in usize. For an edge that Maze::edge
\* returns no subtraction underflows. Where one does (North at y = 0, West at
\* x = 0) a debug build panics and a release build wraps; the wrapped result
\* mod 2^64 is the integer computed here when that is >= 0 and lies beyond every
\* buffer when it is negative.
Edge_normalise_from(e, maze_width) ==
    LET x == e.from[1]
        y == e.from[2]
        z == IF e.direction \in {"North", "South"} THEN 0 ELSE 1
    IN  2 * Node_normalise(<<x, y>>, maze_width) + z

Edge_normalise(e, maze_width) ==
    LET x == e.from[1]
        y == e.from[2]
        xyz == CASE e.direction = "North" -> <<x, y - 1, 0>>
                 [] e.direction = "South" -> <<x, y, 0>>
                 [] e.direction = "East"  -> <<x, y, 1>>
                 [] e.direction = "West"  -> <<x - 1, y, 1>>
        owner == <<xyz[1], xyz[2]>>
    IN  2 * Node_normalise(owner, maze_width) + xyz[3]

----------------------------------------------------------------------------
(* maze.rs: Maze *)

Maze_new(width, height) ==
    [width  |-> width,
     height |-> height,
     open   |-> [i \in 0..(Edge_bound(width, height) - 1) |-> FALSE]]

\* Option<Node>
Maze_node(maze, x, y) ==
    IF x < maze.width /\ y < maze.height THEN <<x, y>> ELSE NoNode

wrapping_sub1(v) == IF v = 0 THEN UsizeMax ELSE v - 1

\* Option<Edge>: <<>> or <<edge>>
Maze_edge(maze, node, direction) ==
    LET x == node[1]
        y == node[2]
        n == CASE direction = "North" -> <<x, wrapping_sub1(y)>>
               [] direction = "South" -> <<x, y + 1>>
               [] direction = "East"  -> <<x + 1, y>>
               [] direction = "West"  -> <<wrapping_sub1(x), y>>
        neighbour == Maze_node(maze, n[1], n[2])
    IN  IF neighbour = NoNode THEN <<>>
        ELSE <<[from |-> node, to |-> neighbour, direction |-> direction]>>

\* rows of (0..width), top to bottom
Maze_nodes_iter(maze) ==
    [i \in 1..(maze.width * maze.height) |->
        <<(i - 1) % maze.width, (i - 1) \div maze.width>>]

RECURSIVE Flatten(_)
Flatten(seqs) ==
    IF seqs = <<>> THEN <<>> ELSE Head(seqs) \o Flatten(Tail(seqs))

\* the edges of all four directions are enumerated for each node
Maze_edges_iter_all_directions(maze) ==
    LET nodes == Maze_nodes_iter(maze)
    IN  Flatten([i \in 1..Len(nodes) |->
            Flatten([j \in 1..4 |-> Maze_edge(maze, nodes[i], Direction_ALL[j])])])

Maze_edges_iter(maze) ==
    LET nodes == Maze_nodes_iter(maze)
    IN  Flatten([i \in 1..Len(nodes) |->
            Maze_edge(maze, nodes[i], "East") \o Maze_edge(maze, nodes[i], "South")])

Maze_neighbours(maze, node) ==
    Flatten([i \in 1..4 |-> Maze_edge(maze, node, Direction_ALL[i])])

Maze_open_neighbours(maze, node) ==
    SelectSeq(Maze_neighbours(maze, node),
              LAMBDA e : maze.open[Edge_normalise(e, maze.width)])

Maze_bounds(maze) == <<(<<0, 0>>), (<<maze.width - 1, maze.height - 1>>)>>

\* Neighbours::choose: the slice's choose draws an index below its length;
\* rng is that draw, reduced to the length. Option<Edge>.
Neighbours_choose(list, rng) ==
    IF list = <<>> THEN <<>> ELSE <<list[(rng % Len(list)) + 1]>>

\* Maze::random_node_where: one of the nodes meeting the predicate, if any;
\* meeting is the set of nodes the predicate holds of. Option<Node>.
Maze_random_node_where(maze, meeting, rng) ==
    LET found == SelectSeq(Maze_nodes_iter(maze), LAMBDA n : n \in meeting)
    IN  IF found = <<>> THEN NoNode ELSE found[(rng % Len(found)) + 1]

Nodes(maze) == {Maze_nodes_iter(maze)[i] : i \in 1..(maze.width * maze.height)}

Range(seq) == {seq[i] : i \in 1..Len(seq)}

----------------------------------------------------------------------------
(* state.rs: State<T> *)

NodeBuffer_new(maze, value) ==
    [i \in 0..(Node_bound(maze.width, maze.height) - 1) |-> value]

State_set_age(s, node, a) ==
    LET i == Node_normalise(node, s.maze.width)
    IN  [s EXCEPT !.age[i] = a,
                  !.visited_count = IF s.age[i] = None THEN @ + 1 ELSE @]

State_visit(s, node) == State_set_age(s, node, 0)

State_unvisit(s, node) ==
    LET i == Node_normalise(node, s.maze.width)
    IN  [s EXCEPT !.age[i] = None,
                  !.visited_count = IF s.age[i] # None THEN @ - 1 ELSE @]

State_is_visited(s, node) == s.age[Node_normalise(node, s.maze.width)] # None

State_all_visited(s) == s.visited_count = s.maze.width * s.maze.height

\* the ages wrap round at u8::MAX
State_step_wrapping(s) ==
    [s EXCEPT !.age = [i \in DOMAIN s.age |->
        IF s.age[i] = None THEN None ELSE (s.age[i] + 1) % (U8Max + 1)]]

\* State::step: every present age grows by one, saturating
State_step(s) ==
    [s EXCEPT !.age = [i \in DOMAIN s.age |->
        IF s.age[i] = None THEN None ELSE Min(s.age[i] + 1, U8Max)]]

SetOpen(s, edge, value) ==
    [s EXCEPT !.maze.open[Edge_normalise(edge, s.maze.width)] = value]

\* generate::state
generate_state(maze, settings) ==
    [maze          |-> maze,
     settings      |-> settings,
     age           |-> NodeBuffer_new(maze, None),
     visited_count |-> 0,
     colours       |-> "generate",
     phase         |-> [name |-> "generate"]]

NoAlgorithm == [kind |-> "None"]

NoProbe == [call |-> "none"]

\* inner() has not returned, nothing is printed, the terminal is the shell's
Running == [inner |-> "Running", stderr |-> 0, terminal |-> "shell"]

Ret(self, s, sig, what) ==
    [self |-> self, state |-> s, signal |-> sig, outcome |-> what]

----------------------------------------------------------------------------
(* generate/aldous_broder.rs *)

AldousBroder_new(s, rng_node) ==
    [self |-> [kind |-> "AldousBroder", head |-> rng_node], state |-> s]

\* the wall is opened on every move
AldousBroder_step_opens_always(self, s, rng) ==
    IF State_all_visited(s) THEN Ret(self, s, "Done", "done")
    ELSE
        LET s1   == State_visit(s, self.head)
            edge == Neighbours_choose(Maze_neighbours(s1.maze, self.head), rng)[1]
        IN  Ret([self EXCEPT !.head = edge.to], SetOpen(s1, edge, TRUE),
                "Continue", "open")

\* Done one node short of all of them
AldousBroder_step_done_early(self, s, rng) ==
    IF s.visited_count >= s.maze.width * s.maze.height - 1
    THEN Ret(self, s, "Done", "done")
    ELSE
        LET s1   == State_visit(s, self.head)
            edge == Neighbours_choose(Maze_neighbours(s1.maze, self.head), rng)[1]
        IN  IF ~State_is_visited(s1, edge.to)
            THEN Ret([self EXCEPT !.head = edge.to], SetOpen(s1, edge, TRUE),
                     "Continue", "open")
            ELSE Ret([self EXCEPT !.head = edge.to], s1, "Continue", "move")

AldousBroder_step(self, s, rng) ==
    IF State_all_visited(s) THEN Ret(self, s, "Done", "done")
    ELSE
        LET s1   == State_visit(s, self.head)
            edge == Neighbours_choose(Maze_neighbours(s1.maze, self.head), rng)[1]
        IN  IF ~State_is_visited(s1, edge.to)
            THEN Ret([self EXCEPT !.head = edge.to], SetOpen(s1, edge, TRUE),
                     "Continue", "open")
            ELSE Ret([self EXCEPT !.head = edge.to], s1, "Continue", "move")

----------------------------------------------------------------------------
(* generate/dfs.rs *)

Dfs_new(s, rng_node) ==
    [self |-> [kind |-> "Dfs", stack |-> <<rng_node>>], state |-> s]

Dfs_step(self, s, rng) ==
    IF self.stack = <<>> THEN Ret(self, s, "Done", "done")
    ELSE
        LET head      == self.stack[Len(self.stack)]
            popped    == SubSeq(self.stack, 1, Len(self.stack) - 1)
            s1        == State_visit(s, head)
            unvisited == SelectSeq(Maze_neighbours(s1.maze, head),
                                   LAMBDA e : ~State_is_visited(s1, e.to))
            neighbour == Neighbours_choose(unvisited, rng)
        IN  IF neighbour # <<>>
            THEN Ret([self EXCEPT !.stack = popped \o <<head, neighbour[1].to>>],
                     SetOpen(s1, neighbour[1], TRUE), "Continue", "open")
            ELSE Ret([self EXCEPT !.stack = popped], s1, "Continue", "backtrack")

----------------------------------------------------------------------------
(* generate/kruskal.rs *)

\* find_root returning the parent instead of the resolved root
Kruskal_find_root_shallow(parents, width, node) ==
    [root |-> parents[Node_normalise(node, width)], parents |-> parents]

\* find_root(&mut self, maze, node) -> Node: the root, and self.parents after
\* the call
RECURSIVE Kruskal_find_root(_, _, _)
Kruskal_find_root(parents, width, node) ==
    LET parent == parents[Node_normalise(node, width)]
    IN  IF node = parent THEN [root |-> node, parents |-> parents]
        ELSE LET r == Kruskal_find_root(parents, width, parent)
             IN  [root    |-> r.root,
                  parents |-> [r.parents EXCEPT ![Node_normalise(node, width)] = r.root]]

\* shuffled is the outcome of walls.shuffle: a permutation of edges_iter
Kruskal_new(s, shuffled) ==
    [self  |-> [kind    |-> "Kruskal",
                queue   |-> shuffled,
                parents |-> [i \in 0..(Node_bound(s.maze.width, s.maze.height) - 1) |->
                                Maze_nodes_iter(s.maze)[i + 1]]],
     state |-> s]

\* a rejected edge ends the call with a Continue of its own
Kruskal_step_signals_rejected(self, s) ==
    IF self.queue = <<>> THEN Ret(self, s, "Done", "done")
    ELSE
        LET edge   == self.queue[Len(self.queue)]
            popped == SubSeq(self.queue, 1, Len(self.queue) - 1)
            a      == Kruskal_find_root(self.parents, s.maze.width, edge.from)
            b      == Kruskal_find_root(a.parents, s.maze.width, edge.to)
        IN  IF a.root # b.root
            THEN Ret([self EXCEPT
                        !.queue = popped,
                        !.parents = [b.parents EXCEPT
                            ![Node_normalise(a.root, s.maze.width)] = b.root]],
                     SetOpen(State_visit(State_visit(s, edge.from), edge.to), edge, TRUE),
                     "Continue", "open")
            ELSE Ret([self EXCEPT !.queue = popped, !.parents = b.parents], s,
                     "Continue", "discard")

\* the union re-parents the node of the edge instead of its root
RECURSIVE Kruskal_step_unions_node(_, _)
Kruskal_step_unions_node(self, s) ==
    IF self.queue = <<>> THEN Ret(self, s, "Done", "done")
    ELSE
        LET edge   == self.queue[Len(self.queue)]
            popped == SubSeq(self.queue, 1, Len(self.queue) - 1)
            a      == Kruskal_find_root(self.parents, s.maze.width, edge.from)
            b      == Kruskal_find_root(a.parents, s.maze.width, edge.to)
        IN  IF a.root # b.root
            THEN Ret([self EXCEPT
                        !.queue = popped,
                        !.parents = [b.parents EXCEPT
                            ![Node_normalise(edge.from, s.maze.width)] = b.root]],
                     SetOpen(State_visit(State_visit(s, edge.from), edge.to), edge, TRUE),
                     "Continue", "open")
            ELSE Kruskal_step_unions_node(
                    [self EXCEPT !.queue = popped, !.parents = b.parents], s)

RECURSIVE Kruskal_step(_, _)
Kruskal_step(self, s) ==
    IF self.queue = <<>> THEN Ret(self, s, "Done", "done")
    ELSE
        LET edge   == self.queue[Len(self.queue)]
            popped == SubSeq(self.queue, 1, Len(self.queue) - 1)
            a      == Kruskal_find_root(self.parents, s.maze.width, edge.from)
            b      == Kruskal_find_root(a.parents, s.maze.width, edge.to)
        IN  IF a.root # b.root
            THEN Ret([self EXCEPT
                        !.queue = popped,
                        !.parents = [b.parents EXCEPT
                            ![Node_normalise(a.root, s.maze.width)] = b.root]],
                     SetOpen(State_visit(State_visit(s, edge.from), edge.to), edge, TRUE),
                     "Continue", "open")
            ELSE Kruskal_step([self EXCEPT !.queue = popped, !.parents = b.parents], s)

----------------------------------------------------------------------------
(* generate/prim.rs *)

Prim_new(s, rng_node) ==
    [self  |-> [kind |-> "Prim", queue |-> Maze_neighbours(s.maze, rng_node)],
     state |-> State_visit(s, rng_node)]

\* Vec::swap_remove: the last element takes the removed one's place
swap_remove(vec, index) ==
    LET last == vec[Len(vec)]
        rest == SubSeq(vec, 1, Len(vec) - 1)
    IN  IF index + 1 = Len(vec) THEN rest ELSE [rest EXCEPT ![index + 1] = last]

\* the edge removed is opened whatever its ends are
Prim_step_opens_always(self, s, rng) ==
    IF self.queue = <<>> THEN Ret(self, s, "Done", "done")
    ELSE
        LET index     == rng % Len(self.queue)
            edge      == self.queue[index + 1]
            queue     == swap_remove(self.queue, index)
            from      == State_is_visited(s, edge.from)
            to        == State_is_visited(s, edge.to)
            unvisited == IF from /\ ~to THEN edge.to
                         ELSE IF ~from /\ to THEN edge.from
                         ELSE NoNode
            s1        == State_visit(State_visit(s, edge.from), edge.to)
        IN  IF unvisited # NoNode
            THEN Ret([self EXCEPT !.queue = queue \o Maze_neighbours(s1.maze, unvisited)],
                     SetOpen(s1, edge, TRUE), "Continue", "open")
            ELSE Ret([self EXCEPT !.queue = queue], SetOpen(s1, edge, TRUE),
                     "Continue", "discard")

Prim_step(self, s, rng) ==
    IF self.queue = <<>> THEN Ret(self, s, "Done", "done")
    ELSE
        LET index     == rng % Len(self.queue)
            edge      == self.queue[index + 1]
            queue     == swap_remove(self.queue, index)
            from      == State_is_visited(s, edge.from)
            to        == State_is_visited(s, edge.to)
            unvisited == IF from /\ ~to THEN edge.to
                         ELSE IF ~from /\ to THEN edge.from
                         ELSE NoNode
            s1        == State_visit(State_visit(s, edge.from), edge.to)
        IN  IF unvisited # NoNode
            THEN Ret([self EXCEPT !.queue = queue \o Maze_neighbours(s1.maze, unvisited)],
                     SetOpen(s1, edge, TRUE), "Continue", "open")
            ELSE Ret([self EXCEPT !.queue = queue], s1, "Continue", "discard")

----------------------------------------------------------------------------
(* generate/wilson.rs *)

Wilson_new(s, rng_node) ==
    [self  |-> [kind         |-> "Wilson",
                path         |-> <<>>,
                path_indices |-> NodeBuffer_new(s.maze, None)],
     state |-> State_visit(s, rng_node)]

\* the erased nodes are left visited
RECURSIVE Wilson_erase_keeps_visited(_, _, _)
Wilson_erase_keeps_visited(path_indices, s, erased) ==
    IF erased = <<>> THEN [path_indices |-> path_indices, state |-> s]
    ELSE
        LET e == Head(erased)
        IN  Wilson_erase_keeps_visited(
                [path_indices EXCEPT ![Node_normalise(e.to, s.maze.width)] = None],
                SetOpen(s, e, FALSE),
                Tail(erased))

\* the erased edges are left open
RECURSIVE Wilson_erase_keeps_open(_, _, _)
Wilson_erase_keeps_open(path_indices, s, erased) ==
    IF erased = <<>> THEN [path_indices |-> path_indices, state |-> s]
    ELSE
        LET e == Head(erased)
        IN  Wilson_erase_keeps_open(
                [path_indices EXCEPT ![Node_normalise(e.to, s.maze.width)] = None],
                State_unvisit(s, e.to),
                Tail(erased))

\* for erased in self.path.drain(loop_start..) { ... }
RECURSIVE Wilson_erase(_, _, _)
Wilson_erase(path_indices, s, erased) ==
    IF erased = <<>> THEN [path_indices |-> path_indices, state |-> s]
    ELSE
        LET e == Head(erased)
        IN  Wilson_erase(
                [path_indices EXCEPT ![Node_normalise(e.to, s.maze.width)] = None],
                State_unvisit(SetOpen(s, e, FALSE), e.to),
                Tail(erased))

\* drain(loop_start - 1..)
drain_removed_early(vec, start) == SubSeq(vec, start, Len(vec))

\* drain(loop_start..) of a Vec: what is removed, what stays
drain_removed(vec, start) == SubSeq(vec, start + 1, Len(vec))
drain_kept(vec, start) == SubSeq(vec, 1, start)

\* is_visited(next) matched before path_indices[next]: a walk that runs into
\* itself is taken to have found the established maze
Wilson_step_visited_first(self, s, rng_first, rng) ==
    LET first == Maze_random_node_where(s.maze,
                    {n \in Nodes(s.maze) : ~State_is_visited(s, n)}, rng_first)
    IN  IF self.path = <<>> /\ first = NoNode THEN Ret(self, s, "Done", "done")
        ELSE
            LET path == IF self.path = <<>> THEN <<Edge_identity(first)>> ELSE self.path
                head == path[Len(path)].to
                s1   == State_visit(s, head)
                pi   == [self.path_indices EXCEPT
                            ![Node_normalise(head, s.maze.width)] = Len(path)]
                edge == Neighbours_choose(Maze_neighbours(s1.maze, head), rng)[1]
                next == edge.to
            IN  IF State_is_visited(s1, next)
                THEN Ret([self EXCEPT !.path = <<>>,
                                      !.path_indices = NodeBuffer_new(s.maze, None)],
                         SetOpen(s1, edge, TRUE), "Continue", "join")
                ELSE Ret([self EXCEPT !.path = Append(path, edge), !.path_indices = pi],
                         SetOpen(s1, edge, TRUE), "Continue", "extend")

\* path_indices[head] holds the position of the head's entry counted from
\* zero: Some(self.path.len() - 1)
Wilson_step_index_from_zero(self, s, rng_first, rng) ==
    LET first == Maze_random_node_where(s.maze,
                    {n \in Nodes(s.maze) : ~State_is_visited(s, n)}, rng_first)
    IN  IF self.path = <<>> /\ first = NoNode THEN Ret(self, s, "Done", "done")
        ELSE
            LET path == IF self.path = <<>> THEN <<Edge_identity(first)>> ELSE self.path
                head == path[Len(path)].to
                s1   == State_visit(s, head)
                pi   == [self.path_indices EXCEPT
                            ![Node_normalise(head, s.maze.width)] = Len(path) - 1]
                edge == Neighbours_choose(Maze_neighbours(s1.maze, head), rng)[1]
                next == edge.to
                loop_start == pi[Node_normalise(next, s.maze.width)]
            IN  IF loop_start # None
                THEN LET r == Wilson_erase(pi, s1, drain_removed(path, loop_start))
                     IN  Ret([self EXCEPT !.path = drain_kept(path, loop_start),
                                          !.path_indices = r.path_indices],
                             r.state, "Continue", "erase")
                ELSE IF State_is_visited(s1, next)
                THEN Ret([self EXCEPT !.path = <<>>,
                                      !.path_indices = NodeBuffer_new(s.maze, None)],
                         SetOpen(s1, edge, TRUE), "Continue", "join")
                ELSE Ret([self EXCEPT !.path = Append(path, edge), !.path_indices = pi],
                         SetOpen(s1, edge, TRUE), "Continue", "extend")

\* rng_first: the draw of random_node_where (used when the path is empty);
\* rng: the draw of the neighbour
Wilson_step(self, s, rng_first, rng) ==
    LET first == Maze_random_node_where(s.maze,
                    {n \in Nodes(s.maze) : ~State_is_visited(s, n)}, rng_first)
    IN  IF self.path = <<>> /\ first = NoNode THEN Ret(self, s, "Done", "done")
        ELSE
            LET path == IF self.path = <<>> THEN <<Edge_identity(first)>> ELSE self.path
                head == path[Len(path)].to
                s1   == State_visit(s, head)
                pi   == [self.path_indices EXCEPT
                            ![Node_normalise(head, s.maze.width)] = Len(path)]
                edge == Neighbours_choose(Maze_neighbours(s1.maze, head), rng)[1]
                next == edge.to
                loop_start == pi[Node_normalise(next, s.maze.width)]
            IN  IF loop_start # None
                THEN LET r == Wilson_erase(pi, s1, drain_removed(path, loop_start))
                     IN  Ret([self EXCEPT !.path = drain_kept(path, loop_start),
                                          !.path_indices = r.path_indices],
                             r.state, "Continue", "erase")
                ELSE IF State_is_visited(s1, next)
                THEN Ret([self EXCEPT !.path = <<>>,
                                      !.path_indices = NodeBuffer_new(s.maze, None)],
                         SetOpen(s1, edge, TRUE), "Continue", "join")
                ELSE Ret([self EXCEPT !.path = Append(path, edge), !.path_indices = pi],
                         SetOpen(s1, edge, TRUE), "Continue", "extend")

----------------------------------------------------------------------------
(* solve/mod.rs *)

\* the node the search came from is returned
RECURSIVE find_dead_end_loop_returns_from(_, _, _)
find_dead_end_loop_returns_from(queue, maze, from) ==
    IF queue = <<>> THEN from
    ELSE
        LET head       == Head(queue)
            neighbours == Maze_open_neighbours(maze, head.to)
        IN  IF Len(neighbours) = 1 THEN head.from
            ELSE find_dead_end_loop_returns_from(Tail(queue) \o neighbours, maze, from)

RECURSIVE find_dead_end_loop(_, _, _)
find_dead_end_loop(queue, maze, from) ==
    IF queue = <<>> THEN from
    ELSE
        LET head       == Head(queue)
            neighbours == Maze_open_neighbours(maze, head.to)
        IN  IF Len(neighbours) = 1 THEN head.to
            ELSE find_dead_end_loop(Tail(queue) \o neighbours, maze, from)

find_dead_end(from, maze) == find_dead_end_loop(<<Edge_identity(from)>>, maze, from)

\* the age buffer and the count are carried over from generation
solve_state_with_carried(previous, start, goal) ==
    [maze          |-> previous.maze,
     settings      |-> previous.settings,
     age           |-> previous.age,
     visited_count |-> previous.visited_count,
     colours       |-> "solve",
     phase         |-> [name    |-> "solve",
                        start   |-> start,
                        goal    |-> goal,
                        parents |-> NodeBuffer_new(previous.maze, NoNode)]]

\* the State that solve::state builds, given the start and goal it derived
solve_state_with(previous, start, goal) ==
    [maze          |-> previous.maze,
     settings      |-> previous.settings,
     age           |-> NodeBuffer_new(previous.maze, None),
     visited_count |-> 0,
     colours       |-> "solve",
     phase         |-> [name    |-> "solve",
                        start   |-> start,
                        goal    |-> goal,
                        parents |-> NodeBuffer_new(previous.maze, NoNode)]]

solve_state(previous) ==
    solve_state_with(previous,
                     find_dead_end(Maze_bounds(previous.maze)[1], previous.maze),
                     find_dead_end(Maze_bounds(previous.maze)[2], previous.maze))

SetParent(s, node, parent) ==
    [s EXCEPT !.phase.parents[Node_normalise(node, s.maze.width)] = parent]

\* the parent is written whether or not one is set
InsertParent_overwrites(s, node, parent) == SetParent(s, node, parent)

\* Option::get_or_insert
InsertParent(s, node, parent) ==
    IF s.phase.parents[Node_normalise(node, s.maze.width)] = NoNode
    THEN SetParent(s, node, parent)
    ELSE s

----------------------------------------------------------------------------
(* solve/a_star.rs *)

\* (Reverse(f_score), node)
AStar_entry(g_score, node, s) ==
    [f |-> g_score + Node_manhattan(node, s.phase.goal), node |-> node]

\* the order of (Reverse<usize>, Node): a is greater than b
AStar_greater(a, b) == a.f < b.f \/ (a.f = b.f /\ Node_lt(b.node, a.node))

\* a stack in place of the heap: the entry pushed last
BinaryHeap_pop_newest(heap) ==
    [entry |-> heap[Len(heap)], heap |-> SubSeq(heap, 1, Len(heap) - 1)]

\* BinaryHeap::pop: the greatest entry, and the heap without it. The heap is
\* kept as the sequence of its entries in the order they were pushed.
BinaryHeap_pop(heap) ==
    LET i == CHOOSE k \in 1..Len(heap) :
                /\ \A j \in 1..Len(heap) : ~AStar_greater(heap[j], heap[k])
                /\ \A j \in 1..(k - 1) : heap[j] # heap[k]
    IN  [entry |-> heap[i],
         heap  |-> SubSeq(heap, 1, i - 1) \o SubSeq(heap, i + 1, Len(heap))]

AStar_new(s) ==
    [self  |-> [kind    |-> "AStar",
                heap    |-> <<AStar_entry(0, s.phase.start, s)>>,
                g_score |-> [NodeBuffer_new(s.maze, UsizeMax) EXCEPT
                                ![Node_normalise(s.phase.start, s.maze.width)] = 0]],
     state |-> s]

\* every open neighbour, visited or not
AStar_neighbours_unfiltered(s, head) == Maze_open_neighbours(s.maze, head)

\* open_neighbours(head).filter(|n| !state.is_visited(n))
AStar_neighbours(s, head) ==
    SelectSeq(Maze_open_neighbours(s.maze, head),
              LAMBDA e : ~State_is_visited(s, e.to))

\* for edge in neighbours { ... }
RECURSIVE AStar_expand(_, _, _, _)
AStar_expand(self, s, head, edges) ==
    IF edges = <<>> THEN [self |-> self, state |-> s]
    ELSE
        LET neighbour == Head(edges).to
            g_score   == self.g_score[Node_normalise(head, s.maze.width)] + 1
        IN  AStar_expand(
                [self EXCEPT
                    !.g_score[Node_normalise(neighbour, s.maze.width)] = g_score,
                    !.heap = Append(@, AStar_entry(g_score, neighbour, s))],
                SetParent(s, neighbour, head),
                head,
                Tail(edges))

\* the goal test comes before the visit
AStar_step_goal_unvisited(self, s) ==
    IF self.heap = <<>> THEN Ret(self, s, "Done", "exhausted")
    ELSE
        LET popped == BinaryHeap_pop(self.heap)
            head   == popped.entry.node
            s1     == State_visit(s, head)
        IN  IF head = s.phase.goal
            THEN Ret([self EXCEPT !.heap = popped.heap], s, "Done", "goal")
            ELSE LET r == AStar_expand([self EXCEPT !.heap = popped.heap], s1, head,
                                       AStar_neighbours(s1, head))
                 IN  Ret(r.self, r.state, "Continue", "expand")

AStar_step(self, s) ==
    IF self.heap = <<>> THEN Ret(self, s, "Done", "exhausted")
    ELSE
        LET popped == BinaryHeap_pop(self.heap)
            head   == popped.entry.node
            s1     == State_visit(s, head)
        IN  IF head = s1.phase.goal
            THEN Ret([self EXCEPT !.heap = popped.heap], s1, "Done", "goal")
            ELSE LET r == AStar_expand([self EXCEPT !.heap = popped.heap], s1, head,
                                       AStar_neighbours(s1, head))
                 IN  Ret(r.self, r.state, "Continue", "expand")

----------------------------------------------------------------------------
(* solve/flood.rs *)

Flood_new(s) ==
    [self  |-> [kind    |-> "Flood",
                queue_a |-> <<Edge_identity(s.phase.start)>>,
                queue_b |-> <<>>],
     state |-> s]

\* neighbours pushed to the front of the queue being drained
RECURSIVE Flood_step_depth_first(_, _)
Flood_step_depth_first(self, s) ==
    IF self.queue_a = <<>>
    THEN IF self.queue_b = <<>> THEN Ret(self, s, "Done", "exhausted")
         ELSE Ret([self EXCEPT !.queue_a = self.queue_b, !.queue_b = self.queue_a],
                  s, "Continue", "swap")
    ELSE
        LET head == Head(self.queue_a)
            s1   == SetParent(State_visit(s, head.to), head.to, head.from)
        IN  IF head.to = s1.phase.goal
            THEN Ret([self EXCEPT !.queue_a = Tail(@)], s1, "Done", "goal")
            ELSE Flood_step_depth_first(
                    [self EXCEPT
                        !.queue_a = SelectSeq(Maze_open_neighbours(s1.maze, head.to),
                                              LAMBDA e : ~State_is_visited(s1, e.to))
                                        \o Tail(@)],
                    s1)

\* one node of queue A per call, and the queues swapped when A is empty
Flood_step_one_per_frame(self, s) ==
    IF self.queue_a = <<>>
    THEN IF self.queue_b = <<>> THEN Ret(self, s, "Done", "exhausted")
         ELSE Ret([self EXCEPT !.queue_a = self.queue_b, !.queue_b = self.queue_a],
                  s, "Continue", "swap")
    ELSE
        LET head == Head(self.queue_a)
            s1   == SetParent(State_visit(s, head.to), head.to, head.from)
        IN  IF head.to = s1.phase.goal
            THEN Ret([self EXCEPT !.queue_a = Tail(@)], s1, "Done", "goal")
            ELSE Ret([self EXCEPT
                        !.queue_a = Tail(@),
                        !.queue_b = @ \o SelectSeq(Maze_open_neighbours(s1.maze, head.to),
                                                  LAMBDA e : ~State_is_visited(s1, e.to))],
                     s1, "Continue", "visit")

RECURSIVE Flood_step(_, _)
Flood_step(self, s) ==
    IF self.queue_a = <<>>
    THEN IF self.queue_b = <<>> THEN Ret(self, s, "Done", "exhausted")
         ELSE Ret([self EXCEPT !.queue_a = self.queue_b, !.queue_b = self.queue_a],
                  s, "Continue", "swap")
    ELSE
        LET head == Head(self.queue_a)
            s1   == SetParent(State_visit(s, head.to), head.to, head.from)
        IN  IF head.to = s1.phase.goal
            THEN Ret([self EXCEPT !.queue_a = Tail(@)], s1, "Done", "goal")
            ELSE Flood_step(
                    [self EXCEPT
                        !.queue_a = Tail(@),
                        !.queue_b = @ \o SelectSeq(Maze_open_neighbours(s1.maze, head.to),
                                                  LAMBDA e : ~State_is_visited(s1, e.to))],
                    s1)

----------------------------------------------------------------------------
(* solve/mouse.rs *)

Mouse_new(s) == [self |-> [kind |-> "Mouse", head |-> s.phase.start], state |-> s]

Mouse_step(self, s, rng) ==
    LET s1 == State_visit(s, self.head)
    IN  IF self.head = s1.phase.goal THEN Ret(self, s1, "Done", "goal")
        ELSE
            \* .expect("There are no isolated nodes")
            LET edge == Neighbours_choose(Maze_open_neighbours(s1.maze, self.head), rng)[1]
                next == edge.to
            IN  Ret([self EXCEPT !.head = next], InsertParent(s1, next, self.head),
                    "Continue", "move")

----------------------------------------------------------------------------
(* solve/right_hand.rs *)

RightHand_new(s) ==
    [self  |-> [kind |-> "RightHand", head |-> s.phase.start, direction |-> "North"],
     state |-> s]

\* the number of times one call of step takes the None branch from this head
\* and direction before edge() yields an open edge; 4 when it has come round to
\* the direction it began with and so never yields one
RECURSIVE RightHand_retries(_, _, _, _)
RightHand_retries(maze, head, direction, n) ==
    IF n = 4 THEN 4
    ELSE IF SelectSeq(Maze_edge(maze, head, direction),
                      LAMBDA e : maze.open[Edge_normalise(e, maze.width)]) # <<>>
    THEN n
    ELSE RightHand_retries(maze, head, Direction_anti_clockwise(direction), n + 1)

\* after a move the direction stays the direction of travel, with no turn
\* to the right
RECURSIVE RightHand_step_no_turn(_, _)
RightHand_step_no_turn(self, s) ==
    LET s1 == State_visit(s, self.head)
    IN  IF self.head = s1.phase.goal THEN Ret(self, s1, "Done", "goal")
        ELSE
            LET next == SelectSeq(Maze_edge(s1.maze, self.head, self.direction),
                                  LAMBDA e : s1.maze.open[Edge_normalise(e, s1.maze.width)])
            IN  IF next # <<>>
                THEN LET e == next[1]
                     IN  Ret([self EXCEPT !.head = e.to, !.direction = e.direction],
                             InsertParent(s1, e.to, e.from), "Continue", "move")
                ELSE RightHand_step_no_turn(
                        [self EXCEPT !.direction = Direction_anti_clockwise(@)], s1)

RECURSIVE RightHand_step(_, _)
RightHand_step(self, s) ==
    LET s1 == State_visit(s, self.head)
    IN  IF self.head = s1.phase.goal THEN Ret(self, s1, "Done", "goal")
        ELSE
            LET next == SelectSeq(Maze_edge(s1.maze, self.head, self.direction),
                                  LAMBDA e : s1.maze.open[Edge_normalise(e, s1.maze.width)])
            IN  IF next # <<>>
                THEN LET e == next[1]
                     IN  Ret([self EXCEPT !.head = e.to,
                                          !.direction = Direction_clockwise(e.direction)],
                             InsertParent(s1, e.to, e.from), "Continue", "move")
                ELSE RightHand_step(
                        [self EXCEPT !.direction = Direction_anti_clockwise(@)], s1)

----------------------------------------------------------------------------
(* walk.rs *)

walk_state(previous) ==
    [maze          |-> previous.maze,
     settings      |-> previous.settings,
     age           |-> previous.age,
     visited_count |-> previous.visited_count,
     colours       |-> previous.colours,
     phase         |-> [name    |-> "walk",
                        start   |-> previous.phase.start,
                        goal    |-> previous.phase.goal,
                        parents |-> previous.phase.parents,
                        on_path |-> NodeBuffer_new(previous.maze, FALSE)]]

Walker_new(s) == [self |-> [kind |-> "Walker", head |-> s.phase.goal], state |-> s]

\* the walk goes on past start, until a node has no parent
Walker_step_past_start(self, s) ==
    LET head == s.phase.parents[Node_normalise(self.head, s.maze.width)]
    IN  IF head = NoNode THEN Ret(self, s, "Done", "no parent")
        ELSE Ret([self EXCEPT !.head = head],
                 [s EXCEPT !.phase.on_path[Node_normalise(head, s.maze.width)] = TRUE],
                 "Continue", "follow")

\* the node left is marked, not the node stepped to
Walker_step_marks_old_head(self, s) ==
    LET head == s.phase.parents[Node_normalise(self.head, s.maze.width)]
    IN  IF head = NoNode THEN Ret(self, s, "Done", "no parent")
        ELSE
            LET s1 == [s EXCEPT !.phase.on_path[Node_normalise(self.head, s.maze.width)] = TRUE]
            IN  IF head = s1.phase.start THEN Ret(self, s1, "Done", "start")
                ELSE Ret([self EXCEPT !.head = head], s1, "Continue", "follow")

Walker_step(self, s) ==
    LET head == s.phase.parents[Node_normalise(self.head, s.maze.width)]
    IN  IF head = NoNode THEN Ret(self, s, "Done", "no parent")
        ELSE
            LET s1 == [s EXCEPT !.phase.on_path[Node_normalise(head, s.maze.width)] = TRUE]
            IN  IF head = s1.phase.start THEN Ret(self, s1, "Done", "start")
                ELSE Ret([self EXCEPT !.head = head], s1, "Continue", "follow")

----------------------------------------------------------------------------
(* fade.rs *)

Fade_new(s, STEPS) == [self |-> [kind |-> "Fade", steps |-> STEPS], state |-> s]

\* u8::checked_sub(1) is None exactly at 0
Fade_step(self, s) ==
    IF self.steps >= 1
    THEN Ret([self EXCEPT !.steps = self.steps - 1], s, "Continue", "fade")
    ELSE Ret(self, s, "Done", "done")

\* flash_between, from the end of the delay to the start of the second fade:
\* next(prev_state), then on the non-ANSI path age.fill(Some(0)) and the
\* flash colours
flash_between_next(prev_state) ==
    LET s == solve_state(prev_state)
    IN  IF s.settings.ansi
        THEN s
        ELSE [s EXCEPT !.age = [i \in DOMAIN s.age |-> 0],
                       !.colours = "flash"]

\* the colours are restored and the ages of the flash are left in place
flash_between_return_aged(s) ==
    IF s.settings.ansi
    THEN s
    ELSE [s EXCEPT !.colours = "solve"]

\* flash_between, after the second fade: age.fill(None) and the colours
\* restored on the non-ANSI path, the state returned as it is on the ANSI path
flash_between_return(s) ==
    IF s.settings.ansi
    THEN s
    ELSE [s EXCEPT !.age = [i \in DOMAIN s.age |-> None],
                   !.colours = "solve"]

----------------------------------------------------------------------------
(* The driver: what Animation::run does with an algorithm. An action applies *)
(* one call of new or step. `after` is where run goes on a Continue: to the   *)
(* frame ("render") in the whole program, straight back to "step" where the   *)
(* algorithm is driven on its own. `limit` > 0 counts the Continue signals of *)
(* the run in `frames` and stops the run at that many.                        *)

RECURSIVE Shuffles(_)
Shuffles(S) ==
    IF S = {} THEN {<<>>}
    ELSE UNION {{<<x>> \o p : p \in Shuffles(S \ {x})} : x \in S}

At(main, run) == pc.main = main /\ pc.run = run

MayStep(kind, limit) ==
    /\ pc.run = "step"
    /\ algorithm.kind = kind
    /\ limit = 0 \/ frames < limit

Constructed(r) ==
    /\ algorithm' = r.self
    /\ state' = r.state
    /\ pc' = [pc EXCEPT !.run = "step"]
    /\ frames' = 0
    /\ signal' = "None"
    /\ outcome' = "new"
    /\ UNCHANGED <<result, settled, probe>>

\* the edges a Wilson walk settles when it joins the tree: the edges of the
\* path it had, and the edge that reached the tree
Joined(r) ==
    {Edge_normalise(algorithm.path[i], state.maze.width) : i \in 2..Len(algorithm.path)}
        \cup {i \in DOMAIN state.maze.open : r.state.maze.open[i] /\ ~state.maze.open[i]}

Stepped(r, after, limit) ==
    /\ algorithm' = r.self
    /\ state' = r.state
    /\ signal' = r.signal
    /\ outcome' = r.outcome
    /\ pc' = [pc EXCEPT !.run = IF r.signal = "Continue" THEN after ELSE "returned"]
    /\ frames' = IF limit > 0 /\ r.signal = "Continue" THEN frames + 1 ELSE frames
    /\ settled' = IF r.outcome = "join" THEN settled \cup Joined(r) ELSE settled
    /\ probe' = NoProbe
    /\ UNCHANGED result

AldousBroderNew ==
    /\ At("generate", "new")
    /\ \E n \in Nodes(state.maze) : Constructed(AldousBroder_new(state, n))

AldousBroderStep(after, limit) ==
    /\ MayStep("AldousBroder", limit)
    /\ \E rng \in 0..3 : Stepped(AldousBroder_step(algorithm, state, rng), after, limit)

DfsNew ==
    /\ At("generate", "new")
    /\ \E n \in Nodes(state.maze) : Constructed(Dfs_new(state, n))

DfsStep(after, limit) ==
    /\ MayStep("Dfs", limit)
    /\ \E rng \in 0..3 : Stepped(Dfs_step(algorithm, state, rng), after, limit)

KruskalNew ==
    /\ At("generate", "new")
    /\ state.maze.width * state.maze.height <= KruskalMaxCells
    /\ \E shuffled \in Shuffles(Range(Maze_edges_iter(state.maze))) :
            Constructed(Kruskal_new(state, shuffled))

KruskalStep(after, limit) ==
    /\ MayStep("Kruskal", limit)
    /\ Stepped(Kruskal_step(algorithm, state), after, limit)

PrimNew ==
    /\ At("generate", "new")
    /\ state.maze.width * state.maze.height <= PrimMaxCells
    /\ \E n \in Nodes(state.maze) : Constructed(Prim_new(state, n))

PrimStep(after, limit) ==
    /\ MayStep("Prim", limit)
    /\ \E rng \in 0..(IF algorithm.queue = <<>> THEN 0 ELSE Len(algorithm.queue) - 1) :
            Stepped(Prim_step(algorithm, state, rng), after, limit)

WilsonNew ==
    /\ At("generate", "new")
    /\ \E n \in Nodes(state.maze) : Constructed(Wilson_new(state, n))

WilsonStep(after, limit) ==
    /\ MayStep("Wilson", limit)
    /\ \E rng_first \in (IF algorithm.path = <<>>
                          THEN 0..(state.maze.width * state.maze.height - 1)
                          ELSE {0}),
          rng \in 0..3 :
            Stepped(Wilson_step(algorithm, state, rng_first, rng), after, limit)

AStarNew ==
    /\ At("solve", "new")
    /\ Constructed(AStar_new(state))

AStarStep(after, limit) ==
    /\ MayStep("AStar", limit)
    /\ Stepped(AStar_step(algorithm, state), after, limit)

FloodNew ==
    /\ At("solve", "new")
    /\ Constructed(Flood_new(state))

FloodStep(after, limit) ==
    /\ MayStep("Flood", limit)
    /\ Stepped(Flood_step(algorithm, state), after, limit)

MouseNew ==
    /\ At("solve", "new")
    /\ state.maze.width * state.maze.height <= MouseMaxCells
    /\ Constructed(Mouse_new(state))

MouseStep(after, limit) ==
    /\ MayStep("Mouse", limit)
    /\ \E rng \in 0..3 : Stepped(Mouse_step(algorithm, state, rng), after, limit)

RightHandNew ==
    /\ At("solve", "new")
    /\ Constructed(RightHand_new(state))

RightHandStep(after, limit) ==
    /\ MayStep("RightHand", limit)
    /\ Stepped(RightHand_step(algorithm, state), after, limit)

\* flash_between: let mut state = next(prev_state), with next = solve::state,
\* once the generator's run has returned
SolveState(main) ==
    /\ At("generate", "returned")
    /\ state' = solve_state(state)
    /\ algorithm' = NoAlgorithm
    /\ pc' = [main |-> main, run |-> "new"]
    /\ signal' = "None"
    /\ outcome' = "solve::state"
    /\ frames' = 0
    /\ settled' = {}
    /\ UNCHANGED <<result, probe>>

\* main: let mut state = walk::state(state), once the solver's run has returned
WalkState(main) ==
    /\ At("solve", "returned")
    /\ state' = walk_state(state)
    /\ algorithm' = NoAlgorithm
    /\ pc' = [main |-> main, run |-> "new"]
    /\ signal' = "None"
    /\ outcome' = "walk::state"
    /\ frames' = 0
    /\ settled' = {}
    /\ UNCHANGED <<result, probe>>

WalkerNew ==
    /\ At("walk", "new")
    /\ Constructed(Walker_new(state))

WalkerStep(after, limit) ==
    /\ MayStep("Walker", limit)
    /\ Stepped(Walker_step(algorithm, state), after, limit)

\* Kruskal::find_root called on a node, outside a step
KruskalFindRoot ==
    /\ pc.run = "step"
    /\ algorithm.kind = "Kruskal"
    /\ \E node \in Nodes(state.maze) :
        LET r == Kruskal_find_root(algorithm.parents, state.maze.width, node)
        IN  /\ algorithm' = [algorithm EXCEPT !.parents = r.parents]
            /\ probe' = [call |-> "find_root", node |-> node, root |-> r.root,
                         compressed |-> r.parents # algorithm.parents]
    /\ outcome' = "find_root"
    /\ UNCHANGED <<state, signal, pc, result, frames, settled>>

----------------------------------------------------------------------------
(* Specifications *)

Start(width, height, ansi, main) ==
    /\ state = generate_state(Maze_new(width, height), [ansi |-> ansi])
    /\ algorithm = NoAlgorithm
    /\ signal = "None"
    /\ pc = [main |-> main, run |-> "new"]
    /\ result = Running
    /\ frames = 0
    /\ outcome = "none"
    /\ settled = {}
    /\ probe = NoProbe

\* The five generators, each driven from new to Done on a fresh maze.
GenInit == \E d \in Dims : Start(d[1], d[2], FALSE, "generate")

GenNext ==
    \/ AldousBroderNew \/ AldousBroderStep("step", 0)
    \/ DfsNew \/ DfsStep("step", 0)
    \/ KruskalNew \/ KruskalStep("step", 0)
    \/ PrimNew \/ PrimStep("step", 0)
    \/ WilsonNew \/ WilsonStep("step", 0)

SpecGen == GenInit /\ [][GenNext]_vars

----------------------------------------------------------------------------
(* The index functions called on their own: normalise on two nodes, normalise *)
(* on two edges, == and the derived hash on two edges. The edges are those    *)
(* Maze::edge returns.                                                        *)

ValidEdges(maze) ==
    UNION {Range(Maze_edge(maze, n, d)) : n \in Nodes(maze), d \in Direction}

NormaliseNodes ==
    /\ At("index", "new")
    /\ probe.call = "none"
    /\ \E a, b \in Nodes(state.maze) :
        probe' = [call |-> "Node::normalise", a |-> a, b |-> b,
                  ia |-> Node_normalise(a, state.maze.width),
                  ib |-> Node_normalise(b, state.maze.width)]
    /\ UNCHANGED <<state, algorithm, signal, pc, result, frames, outcome, settled>>

NormaliseEdges ==
    /\ At("index", "new")
    /\ probe.call = "none"
    /\ \E a, b \in ValidEdges(state.maze) :
        probe' = [call |-> "Edge::normalise", a |-> a, b |-> b,
                  ia |-> Edge_normalise(a, state.maze.width),
                  ib |-> Edge_normalise(b, state.maze.width),
                  ir |-> Edge_normalise(Edge_reverse(a), state.maze.width)]
    /\ UNCHANGED <<state, algorithm, signal, pc, result, frames, outcome, settled>>

CompareEdges ==
    /\ At("index", "new")
    /\ probe.call = "none"
    /\ \E a, b \in ValidEdges(state.maze) :
        probe' = [call |-> "Edge::eq", a |-> a, b |-> b,
                  eq |-> Edge_eq(a, b),
                  eq_reverse |-> Edge_eq(a, Edge_reverse(a)),
                  hash_a |-> Edge_hash(a),
                  hash_b |-> Edge_hash(b)]
    /\ UNCHANGED <<state, algorithm, signal, pc, result, frames, outcome, settled>>

IndexInit == \E d \in Dims : Start(d[1], d[2], FALSE, "index")

IndexNext == NormaliseNodes \/ NormaliseEdges \/ CompareEdges

SpecIndex == IndexInit /\ [][IndexNext]_vars

\* Maze::edges_iter and Maze::edge called on their own, on every grid from
\* 1x1 up
MazeDims == (1..MaxWidth) \X (1..MaxHeight)

EdgesIter ==
    /\ At("maze", "new")
    /\ probe.call = "none"
    /\ probe' = [call |-> "Maze::edges_iter", edges |-> Maze_edges_iter(state.maze)]
    /\ UNCHANGED <<state, algorithm, signal, pc, result, frames, outcome, settled>>

MazeEdge ==
    /\ At("maze", "new")
    /\ probe.call = "none"
    /\ \E node \in Nodes(state.maze), direction \in Direction :
        probe' = [call |-> "Maze::edge", node |-> node, direction |-> direction,
                  edge |-> Maze_edge(state.maze, node, direction)]
    /\ UNCHANGED <<state, algorithm, signal, pc, result, frames, outcome, settled>>

MazeInit == \E d \in MazeDims : Start(d[1], d[2], FALSE, "maze")

MazeNext == EdgesIter \/ MazeEdge

SpecMaze == MazeInit /\ [][MazeNext]_vars

Ends(e) == {e.from, e.to}

\* C5: Node normalisation maps the nodes of the grid one-to-one onto
\* 0 .. width * height - 1.
C5_NodeIndexBijective ==
    /\ {Node_normalise(n, state.maze.width) : n \in Nodes(state.maze)}
            = 0..(state.maze.width * state.maze.height - 1)
    /\ probe.call = "Node::normalise" =>
        /\ probe.ia \in 0..(state.maze.width * state.maze.height - 1)
        /\ probe.ib \in 0..(state.maze.width * state.maze.height - 1)
        /\ probe.a # probe.b => probe.ia # probe.ib

C5_Witness ==
    /\ probe.call = "Node::normalise"
    /\ state.maze.width = 2 /\ state.maze.height = 3
    /\ probe.a = <<1, 0>> /\ probe.b = <<0, 2>>

\* C6: the index of an edge Maze::edge returns lies in 0 .. 2 * width * height - 1,
\* two such edges have the same index exactly when they join the same two
\* nodes, and an edge and its reverse have the same index.
C6_EdgeIndexInjective ==
    probe.call = "Edge::normalise" =>
        /\ probe.ia \in 0..(2 * state.maze.width * state.maze.height - 1)
        /\ probe.ib \in 0..(2 * state.maze.width * state.maze.height - 1)
        /\ (probe.ia = probe.ib) <=> (Ends(probe.a) = Ends(probe.b))
        /\ probe.ir = probe.ia

C6_Witness ==
    /\ probe.call = "Edge::normalise"
    /\ probe.a.direction = "North"
    /\ probe.b = Edge_reverse(probe.a)
    /\ state.maze.width = 3

\* C7: an edge equals its reverse, and two edges that do not join the same two
\* nodes are not equal.
C7_EdgeEqUndirected ==
    probe.call = "Edge::eq" =>
        /\ probe.eq_reverse
        /\ Ends(probe.a) # Ends(probe.b) => ~probe.eq
        /\ Ends(probe.a) = Ends(probe.b) => probe.eq

C7_Witness ==
    /\ probe.call = "Edge::eq"
    /\ probe.a.direction = "West"
    /\ probe.b = Edge_reverse(probe.a)
    /\ probe.eq

\* C8: two edges that compare equal feed the same data to the hasher.
C8_HashRespectsEq ==
    (probe.call = "Edge::eq" /\ probe.eq) => probe.hash_a = probe.hash_b

\* the point one step from node in a direction, in the integers
Beside(node, direction) ==
    CASE direction = "North" -> <<node[1], node[2] - 1>>
      [] direction = "South" -> <<node[1], node[2] + 1>>
      [] direction = "East"  -> <<node[1] + 1, node[2]>>
      [] direction = "West"  -> <<node[1] - 1, node[2]>>

\* the points of the grid
Grid(maze) == (0..(maze.width - 1)) \X (0..(maze.height - 1))

----------------------------------------------------------------------------
(* The maze as a graph, for the properties below *)

Generators == {"AldousBroder", "Dfs", "Kruskal", "Prim", "Wilson"}

\* the nodes with a present age
Visited(s) == {n \in Nodes(s.maze) : State_is_visited(s, n)}

\* the slots of the open buffer that are set
OpenSlots(maze) == {i \in DOMAIN maze.open : maze.open[i]}

\* the slots that belong to an edge of the lattice
EdgeSlots(maze) ==
    {Edge_normalise(e, maze.width) : e \in Range(Maze_edges_iter(maze))}

\* the nodes one edge of E away from n
Adjacent(maze, E, n) ==
    {e.to : e \in {f \in Range(Maze_neighbours(maze, n)) :
                        Edge_normalise(f, maze.width) \in E}}

RECURSIVE Reachable(_, _, _)
Reachable(maze, E, seen) ==
    LET more == seen \cup UNION {Adjacent(maze, E, n) : n \in seen}
    IN  IF more = seen THEN seen ELSE Reachable(maze, E, more)

Components(maze, E) == {Reachable(maze, E, {n}) : n \in Nodes(maze)}

Connected(maze, E) == Reachable(maze, E, {<<0, 0>>}) = Nodes(maze)

\* a set of lattice edges is a forest exactly when every edge joins two components
Acyclic(maze, E) ==
    /\ E \subseteq EdgeSlots(maze)
    /\ Cardinality(E) + Cardinality(Components(maze, E)) = Cardinality(Nodes(maze))

PathSlots(path, width) == {Edge_normalise(path[i], width) : i \in 2..Len(path)}

PathNodes(path) == {path[i].to : i \in 1..Len(path)}

\* Kruskal driven from new to Done, with find_root also called between steps.
UnionFindNext == KruskalNew \/ KruskalStep("step", 0) \/ KruskalFindRoot

SpecUnionFind == GenInit /\ [][UnionFindNext]_vars

\* Kruskal driven from new to Done, the Continue signals counted in frames.
KruskalNext == KruskalNew \/ KruskalStep("step", MaxCells)

SpecKruskal == GenInit /\ [][KruskalNext]_vars

\* the sets of n - 1 lattice edges that connect the n nodes
SpanningTrees(maze) ==
    {E \in SUBSET EdgeSlots(maze) :
        /\ Cardinality(E) = maze.width * maze.height - 1
        /\ Connected(maze, E)}

\* The four solvers and then the Walker, each driven from new to Done, on
\* every spanning tree (what generation leaves, C1) with every start and goal.
SolveInit ==
    \E d \in Dims :
        LET maze == Maze_new(d[1], d[2])
        IN  \E tree \in SpanningTrees(maze), start, goal \in Nodes(maze) :
                /\ state = solve_state_with(
                        generate_state(
                            [maze EXCEPT !.open = [i \in DOMAIN maze.open |-> i \in tree]],
                            [ansi |-> FALSE]),
                        start, goal)
                /\ algorithm = NoAlgorithm
                /\ signal = "None"
                /\ pc = [main |-> "solve", run |-> "new"]
                /\ result = Running
                /\ frames = 0
                /\ outcome = "none"
                /\ settled = {}
                /\ probe = NoProbe

\* Flood driven from new to Done, the Continue signals counted in frames.
FloodNext == FloodNew \/ FloodStep("step", MaxCells)

SpecFlood == SolveInit /\ [][FloodNext]_vars

\* RightHand driven from new to Done, the Continue signals counted in frames.
RightHandNext == RightHandNew \/ RightHandStep("step", RightHandMaxFrames)

SpecRightHand == SolveInit /\ [][RightHandNext]_vars

\* The three places that make an identity edge: Wilson's walks, then the
\* dead-end searches of solve::state on the maze Wilson leaves, then Flood.
SentinelNext ==
    \/ WilsonNew \/ WilsonStep("step", 0)
    \/ SolveState("solve")
    \/ FloodNew \/ FloodStep("step", 0)

SpecSentinel == GenInit /\ [][SentinelNext]_vars

SolveNext ==
    \/ AStarNew \/ AStarStep("step", 0)
    \/ FloodNew \/ FloodStep("step", 0)
    \/ MouseNew \/ MouseStep("step", 0)
    \/ RightHandNew \/ RightHandStep("step", 0)
    \/ WalkState("walk")
    \/ WalkerNew \/ WalkerStep("step", MaxCells)

SpecSolve == SolveInit /\ [][SolveNext]_vars

----------------------------------------------------------------------------
(* The two phase transitions on what generation leaves: every spanning tree   *)
(* with every node visited. solve::state derives start and goal, a solver and *)
(* then the Walker run on the state it built.                                 *)

Generated(maze, tree) ==
    [generate_state([maze EXCEPT !.open = [i \in DOMAIN maze.open |-> i \in tree]],
                    [ansi |-> FALSE])
        EXCEPT !.age = [i \in DOMAIN @ |-> 0],
               !.visited_count = maze.width * maze.height]

PhasesInit ==
    \E d \in Dims :
        LET maze == Maze_new(d[1], d[2])
        IN  \E tree \in SpanningTrees(maze) :
                /\ state = Generated(maze, tree)
                /\ algorithm = NoAlgorithm
                /\ signal = "Done"
                /\ pc = [main |-> "generate", run |-> "returned"]
                /\ result = Running
                /\ frames = 0
                /\ outcome = "done"
                /\ settled = {}
                /\ probe = NoProbe

PhasesNext ==
    \/ SolveState("solve")
    \/ AStarNew \/ AStarStep("step", 0)
    \/ FloodNew \/ FloodStep("step", 0)
    \/ MouseNew \/ MouseStep("step", 0)
    \/ RightHandNew \/ RightHandStep("step", 0)
    \/ WalkState("walk")
    \/ WalkerNew \/ WalkerStep("step", MaxCells)

SpecPhases == PhasesInit /\ [][PhasesNext]_vars

----------------------------------------------------------------------------
(* The whole program: main::inner runs the generator, the flash fade, the     *)
(* solver, a fade, the walker and a last fade, each through Animation::run.   *)
(* A frame of run is step, render, tick (State::step), poll. The render and   *)
(* the poll may fail with an I/O error and the poll may report a key press;   *)
(* either ends inner() at once.                                               *)

\* setup(): raw mode and the alternate screen, or an I/O error
Setup ==
    /\ At("setup", "new")
    /\ \/ /\ result' = [result EXCEPT !.terminal = "alternate"]
          /\ pc' = [main |-> "generate", run |-> "new"]
          /\ outcome' = "setup"
       \/ /\ \E terminal \in {"shell", "raw"} :
                result' = [result EXCEPT !.inner = "Io", !.terminal = terminal]
          /\ pc' = [main |-> "exit", run |-> "returned"]
          /\ outcome' = "error"
    /\ UNCHANGED <<state, algorithm, signal, frames, settled, probe>>

\* the Err is noted and the run goes on
Fail_ignored(error) ==
    /\ result' = [result EXCEPT !.inner = error]
    /\ outcome' = "error"
    /\ UNCHANGED <<state, algorithm, signal, pc, frames, settled, probe>>

\* the ? on an Err: inner() returns it from wherever run was
Fail(error) ==
    /\ result' = [result EXCEPT !.inner = error]
    /\ pc' = [main |-> "exit", run |-> "returned"]
    /\ outcome' = "error"
    /\ UNCHANGED <<state, algorithm, signal, frames, settled, probe>>

\* crossterm::execute!{MoveTo(0, 0), Print(&state)}?
Render ==
    /\ pc.run = "render"
    /\ \/ /\ pc' = [pc EXCEPT !.run = "tick"]
          /\ outcome' = "render"
          /\ UNCHANGED <<state, algorithm, signal, result, frames, settled, probe>>
       \/ Fail("Io")

\* state.step()
Tick ==
    /\ pc.run = "tick"
    /\ state' = State_step(state)
    /\ pc' = [pc EXCEPT !.run = "poll"]
    /\ outcome' = "tick"
    /\ UNCHANGED <<algorithm, signal, result, frames, settled, probe>>

\* a key press is noted and the loop goes round once more
Poll_interrupt_late ==
    /\ pc.run = "poll"
    /\ \/ /\ pc' = [pc EXCEPT !.run = "step"]
          /\ outcome' = "poll"
          /\ UNCHANGED <<state, algorithm, signal, result, frames, settled, probe>>
       \/ /\ pc' = [pc EXCEPT !.run = "step"]
          /\ result' = [result EXCEPT !.inner = "Break"]
          /\ outcome' = "error"
          /\ UNCHANGED <<state, algorithm, signal, frames, settled, probe>>
       \/ Fail("Io")

\* if crossterm::event::poll(delay)? { return Err(Error::Break) }
Poll ==
    /\ pc.run = "poll"
    /\ \/ /\ pc' = [pc EXCEPT !.run = "step"]
          /\ outcome' = "poll"
          /\ UNCHANGED <<state, algorithm, signal, result, frames, settled, probe>>
       \/ Fail("Break")
       \/ Fail("Io")

FadeNew ==
    /\ pc.main \in {"flash_delay", "flash", "fade_out", "fade_exit"}
    /\ pc.run = "new"
    /\ Constructed(Fade_new(state, IF pc.main = "flash_delay" THEN FlashDelay ELSE FadeSteps))

FadeStep ==
    /\ MayStep("Fade", 0)
    /\ Stepped(Fade_step(algorithm, state), "render", 0)

\* where inner() goes when a run has returned Ok(()), and what it does to the
\* state on the way
Proceed(from, to, next_state) ==
    /\ At(from, "returned")
    /\ state' = next_state
    /\ algorithm' = NoAlgorithm
    /\ signal' = "None"
    /\ pc' = [main |-> to, run |-> "new"]
    /\ outcome' = to
    /\ frames' = 0
    /\ settled' = {}
    /\ UNCHANGED <<result, probe>>

\* cli.generator.run(&mut state)? has returned: flash_between starts its delay
GeneratorReturned == Proceed("generate", "flash_delay", state)

FlashBetweenNext == Proceed("flash_delay", "flash", flash_between_next(state))

FlashBetweenReturn == Proceed("flash", "solve", flash_between_return(state))

FadeOutReturned == Proceed("fade_out", "walk", state)

WalkerReturned == Proceed("walk", "fade_exit", state)

\* the last fade::out is inner()'s value
InnerReturned ==
    /\ At("fade_exit", "returned")
    /\ result' = [result EXCEPT !.inner = "Ok"]
    /\ pc' = [main |-> "exit", run |-> "returned"]
    /\ outcome' = "returned"
    /\ UNCHANGED <<state, algorithm, signal, frames, settled, probe>>

\* main: match inner() prints an I/O error; reset()
MainExit ==
    /\ pc.main = "exit"
    /\ result.inner # "Running"
    /\ result' = [result EXCEPT !.stderr = IF result.inner = "Io" THEN @ + 1 ELSE @,
                                !.terminal = "shell"]
    /\ pc' = [pc EXCEPT !.main = "exited"]
    /\ outcome' = "exit"
    /\ UNCHANGED <<state, algorithm, signal, frames, settled, probe>>

PipelineDims == {d \in Dims : d[1] * d[2] <= PipelineMaxCells}

Init == \E d \in PipelineDims, ansi \in BOOLEAN : Start(d[1], d[2], ansi, "setup")

Next ==
    \/ Setup
    \/ AldousBroderNew \/ AldousBroderStep("render", MaxFrames)
    \/ DfsNew \/ DfsStep("render", 0)
    \/ KruskalNew \/ KruskalStep("render", 0)
    \/ PrimNew \/ PrimStep("render", 0)
    \/ WilsonNew \/ WilsonStep("render", MaxFrames)
    \/ GeneratorReturned
    \/ FadeNew \/ FadeStep
    \/ FlashBetweenNext \/ FlashBetweenReturn
    \/ AStarNew \/ AStarStep("render", 0)
    \/ FloodNew \/ FloodStep("render", 0)
    \/ MouseNew \/ MouseStep("render", MaxFrames)
    \/ RightHandNew \/ RightHandStep("render", 0)
    \/ WalkState("fade_out")
    \/ FadeOutReturned
    \/ WalkerNew \/ WalkerStep("render", 0)
    \/ WalkerReturned
    \/ Render \/ Tick \/ Poll
    \/ InnerReturned
    \/ MainExit

Spec == Init /\ [][Next]_vars

----------------------------------------------------------------------------
(* Generation *)

\* C1: when a generator's step signals Done, exactly width * height - 1 edges
\* are open, the open edges connect every node, and they contain no cycle.
C1_SpanningTreeAtDone ==
    (signal = "Done" /\ algorithm.kind \in Generators) =>
        /\ Cardinality(OpenSlots(state.maze)) = state.maze.width * state.maze.height - 1
        /\ Connected(state.maze, OpenSlots(state.maze))
        /\ Acyclic(state.maze, OpenSlots(state.maze))

C1_Witness ==
    /\ signal = "Done"
    /\ algorithm.kind = "Wilson"
    /\ state.maze.width = 3 /\ state.maze.height = 3
    /\ Cardinality(OpenSlots(state.maze)) = 8

\* C2: the edges of the Wilson walks that have joined the tree never contain a
\* cycle, and a step that erases a loop leaves a path that is strictly shorter
\* and whose nodes are a proper subset of the nodes it had.
C2_WilsonLoopFree ==
    /\ [](Acyclic(state.maze, settled))
    /\ [][(algorithm'.kind = "Wilson" /\ outcome' = "erase") =>
            /\ algorithm.kind = "Wilson"
            /\ Len(algorithm'.path) < Len(algorithm.path)
            /\ PathNodes(algorithm'.path) \subseteq PathNodes(algorithm.path)
            /\ PathNodes(algorithm'.path) # PathNodes(algorithm.path)]_vars

C2_Witness ==
    /\ algorithm.kind = "Wilson"
    /\ outcome = "erase"
    /\ settled # {}
    /\ Len(algorithm.path) >= 2

\* C3: an open edge is closed only by a Wilson step that erases a loop, and
\* then it is an edge of the path being walked and of no walk that has joined
\* the tree; the edges of the walks that have joined the tree stay open.
C3_OpenStaysOpen ==
    /\ [](settled \subseteq OpenSlots(state.maze))
    /\ [][\A i \in DOMAIN state.maze.open :
            (state.maze.open[i] /\ ~state'.maze.open[i]) =>
                /\ algorithm.kind = "Wilson"
                /\ outcome' = "erase"
                /\ i \in PathSlots(algorithm.path, state.maze.width)
                /\ i \notin settled]_vars

C3_Witness ==
    /\ algorithm.kind = "Wilson"
    /\ outcome = "erase"
    /\ settled # {}
    /\ Cardinality(OpenSlots(state.maze)) < Cardinality(settled) + Len(algorithm.path) + 1
    /\ signal = "Continue"
    /\ state.maze.width = 3

\* the generators that mark nodes visited monotonically
Monotone == {"AldousBroder", "Dfs", "Kruskal", "Prim"}

\* C18: a generator's step signals Done only in a state in which every node is
\* visited; and under Aldous-Broder, DFS, Kruskal and Prim no node ever changes
\* from visited to unvisited.
C18_DoneWhenAllVisited ==
    /\ []((signal = "Done" /\ algorithm.kind \in Generators) =>
            \A n \in Nodes(state.maze) : State_is_visited(state, n))
    /\ [][algorithm'.kind \in Monotone =>
            \A i \in DOMAIN state.age :
                state.age[i] # None => state'.age[i] # None]_vars

\* Done on a 3x3 maze
C18_Witness ==
    /\ signal = "Done"
    /\ algorithm.kind = "AldousBroder"
    /\ state.maze.width = 3 /\ state.maze.height = 3
    /\ \A n \in Nodes(state.maze) : State_is_visited(state, n)

\* C27: a Wilson step whose chosen neighbour already has a path index removes
\* exactly the path entries after that node: their edges are closed, their
\* target nodes become unvisited and lose their path index; the node walked
\* into stays visited, keeps its path index and is the head of the path that
\* is left; the edge crossed to close the loop is not open afterwards.
C27_WilsonEraseLoop ==
    [][(/\ algorithm.kind = "Wilson" /\ algorithm'.kind = "Wilson"
        /\ algorithm'.path # <<>>
        /\ Len(algorithm'.path) < Len(algorithm.path)) =>
        LET path    == algorithm.path
            k       == Len(algorithm'.path)
            removed == {path[i] : i \in (k + 1)..Len(path)}
            targets == {e.to : e \in removed}
            head    == path[Len(path)].to
            next    == path[k].to
            index(n) == Node_normalise(n, state.maze.width)
        IN  /\ outcome' = "erase"
            /\ algorithm'.path = SubSeq(path, 1, k)
            /\ algorithm.path_indices[index(next)] = k
            /\ \E e \in Range(Maze_neighbours(state.maze, head)) :
                    /\ e.to = next
                    /\ Edge_normalise(e, state.maze.width) \notin OpenSlots(state'.maze)
            /\ {Edge_normalise(e, state.maze.width) : e \in removed}
                    \subseteq OpenSlots(state.maze)
            /\ OpenSlots(state'.maze) = OpenSlots(state.maze)
                    \ {Edge_normalise(e, state.maze.width) : e \in removed}
            /\ Visited(state') = Visited(state) \ targets
            /\ state'.visited_count = Cardinality(Visited(state'))
            /\ \A n \in Nodes(state.maze) :
                    algorithm'.path_indices[index(n)] =
                        IF n \in targets THEN None ELSE algorithm.path_indices[index(n)]
            /\ next \in Visited(state') \ targets
            /\ algorithm'.path_indices[index(next)] = k
            /\ algorithm'.path[k].to = next]_vars

\* a loop has been erased on a 3x3 grid beside an established part of the
\* maze: the open edges are the settled ones and those of the path that is left
C27_Witness ==
    /\ algorithm.kind = "Wilson"
    /\ outcome = "erase"
    /\ state.maze.width = 3 /\ state.maze.height = 3
    /\ settled # {}
    /\ Len(algorithm.path) >= 2
    /\ Cardinality(OpenSlots(state.maze)) = Cardinality(settled) + Len(algorithm.path) - 1

\* the nodes that have an edge of E
Touched(maze, E) == {n \in Nodes(maze) : Adjacent(maze, E, n) # {}}

\* the visited nodes that are not on the path are the nodes of the settled
\* tree: the nodes of its edges, or the single seed node while it has none
SettledAreOffPath ==
    LET off == Visited(state) \ PathNodes(algorithm.path)
    IN  IF settled = {} THEN Cardinality(off) = 1
        ELSE off = Touched(state.maze, settled)

\* the open edges are the settled edges and the edges of the path entries
\* after the first, none in both, and together they have no cycle
OpenAreSettledAndPath ==
    /\ OpenSlots(state.maze) = settled \cup PathSlots(algorithm.path, state.maze.width)
    /\ settled \cap PathSlots(algorithm.path, state.maze.width) = {}
    /\ Cardinality(PathSlots(algorithm.path, state.maze.width))
            = IF algorithm.path = <<>> THEN 0 ELSE Len(algorithm.path) - 1
    /\ Acyclic(state.maze, OpenSlots(state.maze))

\* C33 as stated: in every state of a Wilson run the open edges are exactly
\* the settled edges and the edges of the current path, they have no cycle, and
\* the visited nodes are exactly the settled nodes and the nodes on the path.
C33_VisitedIsSettledAndPath ==
    algorithm.kind = "Wilson" =>
        /\ OpenAreSettledAndPath
        /\ SettledAreOffPath
        /\ PathNodes(algorithm.path) \subseteq Visited(state)

\* C33: in every state of a Wilson run the open edges are exactly the settled
\* edges and the edges of the current path, they have no cycle, and the visited
\* nodes are exactly the settled nodes and the nodes on the path, except the
\* head of a path the last step extended: step visits the head when it begins,
\* so the node just walked onto is on the path and not yet visited.
C33_WilsonOpenAndVisited ==
    algorithm.kind = "Wilson" =>
        /\ OpenAreSettledAndPath
        /\ SettledAreOffPath
        /\ PathNodes(algorithm.path) \ Visited(state) =
                IF outcome = "extend"
                THEN {algorithm.path[Len(algorithm.path)].to}
                ELSE {}

\* a walk of three nodes beside a settled tree on a 3x3 grid has just been
\* extended: two provisional edges are open and its head is not yet visited
C33_Witness ==
    /\ algorithm.kind = "Wilson"
    /\ outcome = "extend"
    /\ state.maze.width = 3 /\ state.maze.height = 3
    /\ settled # {}
    /\ Len(algorithm.path) = 3
    /\ Cardinality(OpenSlots(state.maze)) = Cardinality(settled) + 2
    /\ ~State_is_visited(state, algorithm.path[3].to)
    /\ State_is_visited(state, algorithm.path[2].to)

\* an edge from a node to itself, whatever its direction field holds
Sentinel(e) == e.from = e.to

\* the identity edge of a node with another direction field: it indexes
\* another slot of the open-edge buffer
Redirected(node, d) == [Edge_identity(node) EXCEPT !.direction = d]

\* the slots of the open-edge buffer whose flag a step changes
Rewritten == {i \in DOMAIN state.maze.open : state'.maze.open[i] # state.maze.open[i]}

\* C35: an identity edge never indexes the open-edge buffer. In Wilson the
\* only identity edge is the first entry of the path, every stored path index
\* is at least 1 and names the entry that ends at the node, so an erasure keeps
\* the first entry and closes only slots of real edges of the path; the slots
\* a Wilson step writes are slots of real edges between neighbours. Flood holds
\* an identity edge only as the seed of its first step and never writes the
\* buffer, and Flood's first step and the two dead-end searches give the same
\* result whatever direction the seed carries: they use its endpoints only.
C35_SentinelNeverIndexesOpen ==
    /\ [](algorithm.kind = "Wilson" =>
            LET path == algorithm.path
            IN  /\ \A n \in Nodes(state.maze) :
                    LET i == algorithm.path_indices[Node_normalise(n, state.maze.width)]
                    IN  i # None => (i >= 1 /\ i <= Len(path) /\ path[i].to = n)
                /\ path # <<>> =>
                    /\ path[1] = Edge_identity(path[1].to)
                    /\ \A i \in 2..Len(path) :
                            ~Sentinel(path[i]) /\ path[i].from = path[i - 1].to)
    /\ [][(algorithm.kind = "Wilson" /\ algorithm'.kind = "Wilson") =>
            /\ outcome' = "erase" =>
                /\ algorithm'.path # <<>>
                /\ algorithm'.path[1] = algorithm.path[1]
                /\ Rewritten = {Edge_normalise(algorithm.path[i], state.maze.width) :
                                    i \in (Len(algorithm'.path) + 1)..Len(algorithm.path)}
            /\ Rewritten \subseteq EdgeSlots(state.maze)
            /\ Cardinality(Rewritten) =
                    IF outcome' = "erase"
                    THEN Len(algorithm.path) - Len(algorithm'.path)
                    ELSE IF outcome' \in {"join", "extend"} THEN 1 ELSE 0]_vars
    /\ [](algorithm.kind = "Flood" =>
            /\ \A i \in 1..Len(algorithm.queue_a) :
                    Sentinel(algorithm.queue_a[i]) => (i = 1 /\ outcome = "new")
            /\ \A i \in 1..Len(algorithm.queue_b) : ~Sentinel(algorithm.queue_b[i])
            /\ outcome = "new" =>
                    \A d \in Range(Direction_ALL) :
                        Flood_step([algorithm EXCEPT
                                        !.queue_a = <<Redirected(state.phase.start, d)>>],
                                   state)
                            = Flood_step(algorithm, state))
    /\ [][algorithm.kind = "Flood" => Rewritten = {}]_vars
    /\ [][outcome' = "solve::state" =>
            /\ Rewritten = {}
            /\ \A d \in Range(Direction_ALL) :
                    LET corners == Maze_bounds(state.maze)
                    IN  /\ find_dead_end_loop(<<Redirected(corners[1], d)>>,
                                              state.maze, corners[1])
                                = state'.phase.start
                        /\ find_dead_end_loop(<<Redirected(corners[2], d)>>,
                                              state.maze, corners[2])
                                = state'.phase.goal]_vars

\* on a 3x3 grid a walk that began in the top row, where the identity edge
\* would index a slot above the grid, has come back to its first node: every
\* entry but the identity edge has been erased
C35_Witness ==
    /\ algorithm.kind = "Wilson"
    /\ outcome = "erase"
    /\ state.maze.width = 3 /\ state.maze.height = 3
    /\ settled # {}
    /\ Len(algorithm.path) = 1
    /\ algorithm.path[1].to[2] = 0
    /\ algorithm.path_indices[Node_normalise(algorithm.path[1].to, 3)] = 1
    /\ Cardinality(OpenSlots(state.maze)) = Cardinality(settled)

\* C26: a Prim step that removes an edge from the frontier opens it exactly
\* when one of its ends was visited and the other was not; then the other end
\* becomes visited and its neighbour edges are appended to the frontier.
\* Otherwise no edge is opened, the frontier gains nothing and the set of
\* visited nodes stays as it was.
C26_PrimOpensAcrossFrontier ==
    [][(algorithm.kind = "Prim" /\ algorithm'.kind = "Prim" /\ algorithm' # algorithm) =>
        \E i \in 1..Len(algorithm.queue) :
            LET queue == algorithm.queue
                edge  == queue[i]
                rest  == [k \in 1..(Len(queue) - 1) |->
                            IF k = i THEN queue[Len(queue)] ELSE queue[k]]
                from  == edge.from \in Visited(state)
                to    == edge.to \in Visited(state)
                slot  == Edge_normalise(edge, state.maze.width)
            IN  IF from # to
                THEN LET other == IF from THEN edge.to ELSE edge.from
                     IN  /\ slot \notin OpenSlots(state.maze)
                         /\ OpenSlots(state'.maze) = OpenSlots(state.maze) \cup {slot}
                         /\ Visited(state') = Visited(state) \cup {other}
                         /\ algorithm'.queue = rest \o Maze_neighbours(state.maze, other)
                ELSE /\ OpenSlots(state'.maze) = OpenSlots(state.maze)
                     /\ Visited(state') = Visited(state)
                     /\ algorithm'.queue = rest]_vars

\* an edge between two visited nodes has been removed without being opened,
\* while a node of the grid is still unvisited
C26_Witness ==
    /\ algorithm.kind = "Prim"
    /\ outcome = "discard"
    /\ Cardinality(OpenSlots(state.maze)) = 2
    /\ state.visited_count = 3
    /\ algorithm.queue # <<>>

\* a and b are joined by open edges
SameSet(maze, a, b) == b \in Reachable(maze, OpenSlots(maze), {a})

\* C21: a Kruskal step that returns Continue has opened exactly one edge, the
\* last one it popped, whose ends were in different sets; the edges it popped
\* before that one had both ends in one set and produced no signal. A run emits
\* exactly width * height - 1 Continue signals, and Done is signalled only with
\* the queue empty.
C21_KruskalOneEdgePerContinue ==
    /\ [][(algorithm.kind = "Kruskal" /\ frames' = frames + 1) =>
            LET before == algorithm.queue
                after  == algorithm'.queue
                opened == before[Len(after) + 1]
            IN  /\ signal' = "Continue"
                /\ Len(after) < Len(before)
                /\ after = SubSeq(before, 1, Len(after))
                /\ OpenSlots(state'.maze) =
                        OpenSlots(state.maze) \cup {Edge_normalise(opened, state.maze.width)}
                /\ Edge_normalise(opened, state.maze.width) \notin OpenSlots(state.maze)
                /\ ~SameSet(state.maze, opened.from, opened.to)
                /\ \A i \in (Len(after) + 2)..Len(before) :
                        SameSet(state.maze, before[i].from, before[i].to)]_vars
    /\ [][(algorithm.kind = "Kruskal" /\ signal' = "Continue") =>
            frames' = frames + 1]_vars
    /\ []((algorithm.kind = "Kruskal" /\ signal = "Done") =>
            /\ algorithm.queue = <<>>
            /\ frames = state.maze.width * state.maze.height - 1)

\* Done on a 2x3 grid: seven edges popped, five of them opened with a Continue
\* each, two rejected without a signal
C21_Witness ==
    /\ algorithm.kind = "Kruskal"
    /\ signal = "Done"
    /\ frames = 5
    /\ algorithm.queue = <<>>
    /\ state.maze.width = 2 /\ state.maze.height = 3
    /\ Cardinality(OpenSlots(state.maze)) = 5

\* C9: in every state of a Kruskal run, with find_root called at any point, for
\* every node x: find_root of the root returned for x returns that root again,
\* the root is its own parent, and the compression done by the call leaves the
\* root returned for every node as it was.
C9_FindRootIdempotent ==
    algorithm.kind = "Kruskal" =>
        /\ \A x \in Nodes(state.maze) :
            LET r == Kruskal_find_root(algorithm.parents, state.maze.width, x)
            IN  /\ Kruskal_find_root(r.parents, state.maze.width, r.root).root = r.root
                /\ r.parents[Node_normalise(r.root, state.maze.width)] = r.root
                /\ \A y \in Nodes(state.maze) :
                    Kruskal_find_root(r.parents, state.maze.width, y).root
                        = Kruskal_find_root(algorithm.parents, state.maze.width, y).root
        /\ outcome = "find_root" =>
            /\ Kruskal_find_root(algorithm.parents, state.maze.width, probe.root).root
                    = probe.root
            /\ Kruskal_find_root(algorithm.parents, state.maze.width, probe.node).root
                    = probe.root

C9_Witness ==
    /\ algorithm.kind = "Kruskal"
    /\ outcome = "find_root"
    /\ probe.compressed
    /\ probe.root # probe.node
    /\ Cardinality(OpenSlots(state.maze)) >= 3

\* the root find_root resolves for a node
RootOf(parents, width, node) == Kruskal_find_root(parents, width, node).root

\* C34: after Kruskal's construction and after every step, two nodes have the
\* same union-find root exactly when open edges connect them; and every edge a
\* step opens joins two nodes that had different roots and were not connected.
C34_RootsAreComponents ==
    /\ [](algorithm.kind = "Kruskal" =>
            \A a, b \in Nodes(state.maze) :
                (RootOf(algorithm.parents, state.maze.width, a)
                    = RootOf(algorithm.parents, state.maze.width, b))
                    <=> SameSet(state.maze, a, b))
    /\ [][algorithm.kind = "Kruskal" =>
            \A e \in Range(Maze_edges_iter(state.maze)) :
                (/\ ~state.maze.open[Edge_normalise(e, state.maze.width)]
                 /\ state'.maze.open[Edge_normalise(e, state.maze.width)]) =>
                    /\ ~SameSet(state.maze, e.from, e.to)
                    /\ RootOf(algorithm.parents, state.maze.width, e.from)
                            # RootOf(algorithm.parents, state.maze.width, e.to)
                    /\ SameSet(state'.maze, e.from, e.to)]_vars

\* on a 3x2 grid a step has thrown away an edge between two nodes already
\* connected and opened the next one: four edges are open in two trees, and
\* some node's parent is not yet its root
C34_Witness ==
    /\ algorithm.kind = "Kruskal"
    /\ signal = "Continue"
    /\ state.maze.width = 3 /\ state.maze.height = 2
    /\ Cardinality(OpenSlots(state.maze)) = 4
    /\ Len(algorithm.queue) < 7 - 4
    /\ Cardinality(Components(state.maze, OpenSlots(state.maze))) = 2
    /\ \E n \in Nodes(state.maze) :
            /\ algorithm.parents[Node_normalise(n, 3)] # n
            /\ algorithm.parents[Node_normalise(n, 3)]
                    # RootOf(algorithm.parents, 3, n)

----------------------------------------------------------------------------
(* Solving *)

\* the number of parent pointers followed from node to reach target; -1 when
\* the chain ends or runs for more than fuel hops before it gets there
RECURSIVE ChainHops(_, _, _, _)
ChainHops(s, node, target, fuel) ==
    IF node = target THEN 0
    ELSE IF fuel = 0 THEN -1
    ELSE
        LET parent == s.phase.parents[Node_normalise(node, s.maze.width)]
        IN  IF parent = NoNode THEN -1
            ELSE LET rest == ChainHops(s, parent, target, fuel - 1)
                 IN  IF rest = -1 THEN -1 ELSE rest + 1

\* the number of open edges on a shortest open path from a to b; -1 if none
RECURSIVE DistanceFrom(_, _, _, _)
DistanceFrom(maze, seen, b, k) ==
    IF b \in seen THEN k
    ELSE
        LET more == seen \cup UNION {Adjacent(maze, OpenSlots(maze), n) : n \in seen}
        IN  IF more = seen THEN -1 ELSE DistanceFrom(maze, more, b, k + 1)

Distance(maze, a, b) == DistanceFrom(maze, {a}, b, 0)

\* C10: when A* signals Done, following the parent pointers from goal reaches
\* start, in as many hops as the open path between start and goal has edges.
C10_AStarChainIsTreePath ==
    (algorithm.kind = "AStar" /\ signal = "Done") =>
        /\ ChainHops(state, state.phase.goal, state.phase.start,
                     state.maze.width * state.maze.height) # -1
        /\ ChainHops(state, state.phase.goal, state.phase.start,
                     state.maze.width * state.maze.height)
                = Distance(state.maze, state.phase.start, state.phase.goal)

C10_Witness ==
    /\ algorithm.kind = "AStar"
    /\ signal = "Done"
    /\ state.maze.width = 3 /\ state.maze.height = 3
    /\ Distance(state.maze, state.phase.start, state.phase.goal) = 6
    /\ Node_manhattan(state.phase.start, state.phase.goal) = 2
    /\ state.visited_count < 9

\* heap without its i-th entry
Without(heap, i) == SubSeq(heap, 1, i - 1) \o SubSeq(heap, i + 1, Len(heap))

\* C25: in A* every pop takes an entry whose f-score is least in the heap and
\* whose node was never popped before (it is unvisited); every entry pushed is
\* for a node that was never pushed before (its g_score and parent are unset,
\* it is unvisited and not in the heap); a g_score or a parent is written only
\* for a node pushed in that step, so each is written at most once; and no two
\* entries of the heap are for one node.
C25_AStarOncePerNode ==
    /\ [](algorithm.kind = "AStar" =>
            \A i, j \in 1..Len(algorithm.heap) :
                algorithm.heap[i].node = algorithm.heap[j].node => i = j)
    /\ [][(algorithm.kind = "AStar" /\ algorithm'.kind = "AStar"
                                   /\ algorithm' # algorithm) =>
            LET heap   == algorithm.heap
                kept   == SubSeq(algorithm'.heap, 1, Len(heap) - 1)
                pushed == {algorithm'.heap[k].node :
                                k \in Len(heap)..Len(algorithm'.heap)}
                index(n) == Node_normalise(n, state.maze.width)
            IN  /\ Len(algorithm'.heap) >= Len(heap) - 1
                /\ \E i \in 1..Len(heap) :
                        /\ kept = Without(heap, i)
                        /\ \A k \in 1..Len(heap) : heap[i].f <= heap[k].f
                        /\ ~State_is_visited(state, heap[i].node)
                        /\ State_is_visited(state', heap[i].node)
                /\ Cardinality(pushed) = Len(algorithm'.heap) - Len(heap) + 1
                /\ \A n \in pushed :
                        /\ algorithm.g_score[index(n)] = UsizeMax
                        /\ state.phase.parents[index(n)] = NoNode
                        /\ ~State_is_visited(state, n)
                        /\ \A k \in 1..Len(heap) : heap[k].node # n
                /\ \A n \in Nodes(state.maze) \ pushed :
                        /\ algorithm'.g_score[index(n)] = algorithm.g_score[index(n)]
                        /\ state'.phase.parents[index(n)] = state.phase.parents[index(n)]]_vars

\* A* has popped the lesser of two f-scores and pushed two neighbours of the
\* node at once
C25_Witness ==
    /\ algorithm.kind = "AStar"
    /\ outcome = "expand"
    /\ Len(algorithm.heap) >= 3
    /\ \E i, j \in 1..Len(algorithm.heap) : algorithm.heap[i].f < algorithm.heap[j].f

\* C11: the nodes one call of Flood's step visits all lie at one open-path
\* distance from start, and no node visited before lies farther from start.
C11_FloodVisitsByDistance ==
    [][(algorithm.kind = "Flood" /\ algorithm'.kind = "Flood") =>
        \A n \in Visited(state') \ Visited(state) :
            /\ \A m \in Visited(state') \ Visited(state) :
                Distance(state.maze, state.phase.start, m)
                    = Distance(state.maze, state.phase.start, n)
            /\ \A m \in Visited(state) :
                Distance(state.maze, state.phase.start, m)
                    <= Distance(state.maze, state.phase.start, n)]_vars

\* Flood is done at the goal, three layers out, with a node of the goal's
\* layer still unvisited
C11_Witness ==
    /\ algorithm.kind = "Flood"
    /\ signal = "Done"
    /\ state.maze.width = 3 /\ state.maze.height = 3
    /\ Distance(state.maze, state.phase.start, state.phase.goal) = 3
    /\ \E n \in Nodes(state.maze) \ Visited(state) :
            Distance(state.maze, state.phase.start, n) = 3

\* the nodes at most k open edges from the nodes of seen
RECURSIVE Within(_, _, _)
Within(maze, seen, k) ==
    IF k = 0 THEN seen
    ELSE Within(maze,
                seen \cup UNION {Adjacent(maze, OpenSlots(maze), n) : n \in seen},
                k - 1)

\* the nodes at open-path distance less than k from start
Nearer(s, k) == IF k = 0 THEN {} ELSE Within(s.maze, {s.phase.start}, k - 1)

\* the nodes at open-path distance k from start
Layer(s, k) == Nearer(s, k + 1) \ Nearer(s, k)

\* C22: a Flood step that returns Continue has drained queue A, so a frame is
\* one breadth layer: after the k-th Continue the visited nodes are exactly
\* those at open-path distance less than k from start, queue B is empty, and
\* queue A holds exactly one open edge into each node at distance k, coming
\* from a node at distance k - 1.
C22_FloodFrameIsLayer ==
    (algorithm.kind = "Flood" /\ signal = "Continue") =>
        /\ frames >= 1
        /\ Visited(state) = Nearer(state, frames)
        /\ algorithm.queue_b = <<>>
        /\ {e.to : e \in Range(algorithm.queue_a)} = Layer(state, frames)
        /\ Len(algorithm.queue_a) = Cardinality(Layer(state, frames))
        /\ \A e \in Range(algorithm.queue_a) :
                /\ e.from \in Layer(state, frames - 1)
                /\ Edge_normalise(e, state.maze.width) \in OpenSlots(state.maze)

\* after the second Continue on a 3x3 maze: a layer of two nodes has been
\* visited in one frame and a layer of two nodes is queued
C22_Witness ==
    /\ algorithm.kind = "Flood"
    /\ signal = "Continue"
    /\ frames = 2
    /\ state.maze.width = 3 /\ state.maze.height = 3
    /\ Cardinality(Layer(state, 1)) >= 2
    /\ Len(algorithm.queue_a) >= 2

\* C12: the Walker, started at goal once a solver is done, ends a run of at
\* most width * height - 1 step calls by stepping onto start; it finds a node
\* without a parent only when its head is start.
C12_WalkerReachesStart ==
    algorithm.kind = "Walker" =>
        /\ frames + 1 <= state.maze.width * state.maze.height - 1
        /\ signal = "Done" =>
            \/ outcome = "start"
            \/ outcome = "no parent" /\ algorithm.head = state.phase.start

\* a walk along a maze that is a single path through all nine nodes
C12_Witness ==
    /\ algorithm.kind = "Walker"
    /\ signal = "Done"
    /\ outcome = "start"
    /\ state.maze.width = 3 /\ state.maze.height = 3
    /\ frames + 1 = 8

\* the nodes of the walk back: goal, then parent after parent up to start
RECURSIVE ChainNodes(_, _, _)
ChainNodes(s, node, fuel) ==
    LET parent == s.phase.parents[Node_normalise(node, s.maze.width)]
    IN  IF node = s.phase.start \/ parent = NoNode \/ fuel = 0 THEN {node}
        ELSE {node} \cup ChainNodes(s, parent, fuel - 1)

OnPath(s) == {n \in Nodes(s.maze) : s.phase.on_path[Node_normalise(n, s.maze.width)]}

\* C13 as stated: when the Walker is done every node of the walk back, goal
\* included, is on_path.
C13_WholeWalkOnPath ==
    (algorithm.kind = "Walker" /\ signal = "Done") =>
        ChainNodes(state, state.phase.goal, state.maze.width * state.maze.height)
            \subseteq OnPath(state)

\* C13, amended: when the Walker is done every node it stepped to (the nodes of
\* the walk back after goal, start included) is on_path; goal, where the walk
\* begins, is not marked unless it is start and its own parent.
C13_SteppedToOnPath ==
    (algorithm.kind = "Walker" /\ signal = "Done") =>
        /\ ChainNodes(state, state.phase.goal, state.maze.width * state.maze.height)
                \ {state.phase.goal} \subseteq OnPath(state)
        /\ state.phase.goal # state.phase.start => state.phase.goal \notin OnPath(state)

C13_Witness ==
    /\ algorithm.kind = "Walker"
    /\ signal = "Done"
    /\ outcome = "start"
    /\ state.maze.width = 3 /\ state.maze.height = 3
    /\ Cardinality(OnPath(state)) = 4
    /\ state.phase.start \in OnPath(state)
    /\ state.phase.goal \notin OnPath(state)

\* C29: each of the four solvers signals Done only in a state in which goal
\* is visited: the Done comes from the test of the head against goal, never
\* from A* finding its heap empty or Flood finding both queues empty.
C29_DoneAtGoal ==
    (algorithm.kind \in {"AStar", "Flood", "Mouse", "RightHand"} /\ signal = "Done") =>
        /\ State_is_visited(state, state.phase.goal)
        /\ outcome = "goal"
        /\ algorithm.kind \in {"Mouse", "RightHand"} => algorithm.head = state.phase.goal

\* Flood is done on a 3x3 maze with goal visited, nodes left unvisited and
\* edges still queued
C29_Witness ==
    /\ algorithm.kind = "Flood"
    /\ signal = "Done"
    /\ state.maze.width = 3 /\ state.maze.height = 3
    /\ State_is_visited(state, state.phase.goal)
    /\ state.visited_count < 9
    /\ algorithm.queue_a # <<>>

\* the nodes of the open path from node to target that does not go back
\* through came; empty when there is none
RECURSIVE TreePathFrom(_, _, _, _)
TreePathFrom(maze, node, target, came) ==
    IF node = target THEN {node}
    ELSE
        LET found == UNION {TreePathFrom(maze, n, target, node) :
                                n \in Adjacent(maze, OpenSlots(maze), node) \ {came}}
        IN  IF found = {} THEN {} ELSE found \cup {node}

\* the nodes of the open path between start and goal
SolutionPath(s) == TreePathFrom(s.maze, s.phase.start, s.phase.goal, NoNode)

\* C30: the Walker never marks a node off the open path between start and
\* goal, and when it is done the nodes marked on_path together with goal are
\* exactly the nodes of that path, whichever solver wrote the parents.
C30_OnPathIsSolution ==
    algorithm.kind = "Walker" =>
        /\ OnPath(state) \subseteq SolutionPath(state)
        /\ signal = "Done" => OnPath(state) \cup {state.phase.goal} = SolutionPath(state)

\* the walk is done on a 3x2 maze in which the solver had visited every node,
\* those off the path too, and had come back over start
C30_Witness ==
    /\ algorithm.kind = "Walker"
    /\ signal = "Done"
    /\ state.maze.width = 3 /\ state.maze.height = 2
    /\ Cardinality(SolutionPath(state)) = 3
    /\ state.visited_count = 6
    /\ state.phase.parents[Node_normalise(state.phase.start, state.maze.width)] # NoNode
    /\ state.phase.parents[Node_normalise(state.phase.start, state.maze.width)]
            # state.phase.start
    /\ OnPath(state) \cup {state.phase.goal} = SolutionPath(state)

\* C32: RightHand on a spanning tree of w*h nodes reaches the goal after at
\* most 2*(w*h - 1) Continue steps, for every start, goal and tree: the count
\* of Continue signals never passes that number, a walk that has used them all
\* stands on the goal, the step that follows a Continue always has an open
\* edge to take, and the run returns only with Done at the goal.
C32_RightHandReachesGoal ==
    algorithm.kind = "RightHand" =>
        LET most == 2 * (state.maze.width * state.maze.height - 1)
        IN  /\ frames <= most
            /\ (pc.run = "step" /\ frames = most) => algorithm.head = state.phase.goal
            /\ pc.run = "step" =>
                    \/ algorithm.head = state.phase.goal
                    \/ RightHand_retries(state.maze, algorithm.head,
                                         algorithm.direction, 0) < 4
            /\ pc.run = "returned" =>
                    /\ signal = "Done"
                    /\ algorithm.head = state.phase.goal
                    /\ State_is_visited(state, state.phase.goal)

\* RightHand is done on a 3x3 maze after going round nearly the whole tree:
\* 15 Continue steps, one fewer than twice its 8 edges
C32_Witness ==
    /\ algorithm.kind = "RightHand"
    /\ signal = "Done"
    /\ state.maze.width = 3 /\ state.maze.height = 3
    /\ frames = 15
    /\ state.phase.start # state.phase.goal

\* following the parent pointers from node comes back to a node already passed
RECURSIVE ChainRepeats(_, _, _)
ChainRepeats(s, node, passed) ==
    LET parent == s.phase.parents[Node_normalise(node, s.maze.width)]
    IN  IF parent = NoNode THEN FALSE
        ELSE IF parent \in passed \cup {node} THEN TRUE
        ELSE ChainRepeats(s, parent, passed \cup {node})

\* under Mouse and RightHand no step changes a parent that is set
ParentsWrittenOnce ==
    [][algorithm.kind \in {"Mouse", "RightHand"} =>
        \A i \in DOMAIN state.phase.parents :
            state.phase.parents[i] # NoNode =>
                state'.phase.parents[i] = state.phase.parents[i]]_vars

\* C23: under Mouse and RightHand a parent is written only while it is unset,
\* and in every state following the parent pointers from any node never
\* returns to a node already passed.
C23_ParentsAcyclic ==
    /\ ParentsWrittenOnce
    /\ [](algorithm.kind \in {"Mouse", "RightHand"} =>
            \A n \in Nodes(state.maze) : ~ChainRepeats(state, n, {}))

----------------------------------------------------------------------------
(* The phase transitions *)

DeadEnds(maze) == {n \in Nodes(maze) : Len(Maze_open_neighbours(maze, n)) = 1}

\* a dead end, the corner itself if it is one, otherwise one as near to the
\* corner as any
NearestDeadEnd(maze, corner, found) ==
    /\ found \in DeadEnds(maze)
    /\ corner \in DeadEnds(maze) => found = corner
    /\ \A n \in DeadEnds(maze) :
            Distance(maze, corner, found) <= Distance(maze, corner, n)

\* C14: the start and goal solve::state derives on a spanning tree each have
\* exactly one open neighbour; start is the corner (0, 0) if that is a dead end
\* and otherwise a dead end nearest to it, and so is goal for the opposite
\* corner.
C14_DeadEndSearch ==
    state.phase.name = "solve" =>
        /\ NearestDeadEnd(state.maze, Maze_bounds(state.maze)[1], state.phase.start)
        /\ NearestDeadEnd(state.maze, Maze_bounds(state.maze)[2], state.phase.goal)

\* the corner (0, 0) is no dead end and the nearest one is two edges away
C14_Witness ==
    /\ outcome = "solve::state"
    /\ state.maze.width = 3 /\ state.maze.height = 3
    /\ Distance(state.maze, <<0, 0>>, state.phase.start) = 2
    /\ state.phase.goal = <<2, 2>>

\* C31: the start and goal solve::state derives on a spanning tree are two
\* distinct nodes.
C31_StartGoalDistinct ==
    state.phase.name \in {"solve", "walk"} => state.phase.start # state.phase.goal

\* C24: in every state of the solve phase every node has an open edge. So a
\* RightHand step rotates anti-clockwise at most three times before it finds
\* an open edge, it returns Continue only having moved along an open edge, and
\* the list Mouse chooses its neighbour from is never empty.
C24_EveryNodeHasOpenEdge ==
    /\ [](state.phase.name = "solve" =>
            \A n \in Nodes(state.maze) : Maze_open_neighbours(state.maze, n) # <<>>)
    /\ [](algorithm.kind = "RightHand" =>
            RightHand_retries(state.maze, algorithm.head, algorithm.direction, 0) <= 3)
    /\ [](algorithm.kind = "Mouse" =>
            Maze_open_neighbours(state.maze, algorithm.head) # <<>>)
    /\ [][(/\ algorithm.kind = "RightHand"
           /\ signal' = "Continue"
           /\ <<algorithm, state>>' # <<algorithm, state>>) =>
            \E e \in Range(Maze_open_neighbours(state.maze, algorithm.head)) :
                /\ algorithm'.head = e.to
                /\ e.to # algorithm.head
                /\ e.direction \in
                    {algorithm.direction,
                     Direction_anti_clockwise(algorithm.direction),
                     Direction_reverse(algorithm.direction),
                     Direction_clockwise(algorithm.direction)}]_vars

\* RightHand has walked into a dead end of a 3x3 maze: the only open edge is
\* the one it came by, three rotations away
C24_Witness ==
    /\ algorithm.kind = "RightHand"
    /\ outcome = "move"
    /\ state.maze.width = 3 /\ state.maze.height = 3
    /\ algorithm.head # state.phase.goal
    /\ RightHand_retries(state.maze, algorithm.head, algorithm.direction, 0) = 3

\* C19: solve::state yields an age buffer with every node absent, a
\* visited_count of 0 and a parents buffer with every node absent, each buffer
\* sized to the graph; walk::state carries start, goal, the age buffer,
\* visited_count and the parents buffer over unchanged and yields an on_path
\* buffer that is false for every node.
C19_PhaseTransitions ==
    [][/\ outcome' = "solve::state" =>
            /\ state'.age = [i \in 0..(state.maze.width * state.maze.height - 1) |-> None]
            /\ state'.visited_count = 0
            /\ state'.phase.parents =
                    [i \in 0..(state.maze.width * state.maze.height - 1) |-> NoNode]
       /\ outcome' = "walk::state" =>
            /\ state'.phase.start = state.phase.start
            /\ state'.phase.goal = state.phase.goal
            /\ state'.age = state.age
            /\ state'.visited_count = state.visited_count
            /\ state'.phase.parents = state.phase.parents
            /\ state'.phase.on_path =
                    [i \in 0..(state.maze.width * state.maze.height - 1) |-> FALSE]]_vars

\* walk::state applied to what a solver left on a 3x3 maze built by solve::state
C19_Witness ==
    /\ outcome = "walk::state"
    /\ state.maze.width = 3 /\ state.maze.height = 3
    /\ state.visited_count > 0
    /\ \E i \in DOMAIN state.age : state.age[i] # None
    /\ \E i \in DOMAIN state.age : state.age[i] = None
    /\ \E i \in DOMAIN state.phase.parents : state.phase.parents[i] # NoNode
    /\ \A i \in DOMAIN state.phase.on_path : ~state.phase.on_path[i]

----------------------------------------------------------------------------
(* The whole program *)

PresentAges(s) == {i \in DOMAIN s.age : s.age[i] # None}

\* C4: in every state of the whole program, visited_count is the number of
\* nodes whose age is present.
C4_VisitedCountIsPresentAges ==
    state.visited_count = Cardinality(PresentAges(state))

Failed == result.inner \in {"Io", "Break"}

Solvers == {"AStar", "Flood", "Mouse", "RightHand"}

\* C15: once a run has returned an error nothing of the pipeline is executed
\* any more (no step, no phase transition, no fade: state, algorithm and signal
\* stay as they are and the only thing that happens is main's exit); the
\* program has then printed one message for an Io error and none for a Break.
C15_ErrorEndsPipeline ==
    /\ [][Failed =>
            /\ state' = state /\ algorithm' = algorithm /\ signal' = signal
            /\ result'.inner = result.inner
            /\ pc.main = "exit" /\ pc'.main = "exited" /\ pc'.run = pc.run]_vars
    /\ [](pc.main = "exited" =>
            result.stderr = IF result.inner = "Io" THEN 1 ELSE 0)

\* the solver's run failed with an I/O error and the program has exited
C15_Witness ==
    /\ pc.main = "exited"
    /\ result.inner = "Io"
    /\ result.stderr = 1
    /\ algorithm.kind \in Solvers
    /\ state.phase.name = "solve"

\* C16: when the poll reports a key press the run returns Break there and
\* then: from that point the run's algorithm, the ages and the maze stay as
\* they are and no step is called.
C16_BreakReturnsAtOnce ==
    /\ [][(pc.run = "poll" /\ result'.inner = "Break") =>
            /\ pc'.run = "returned"
            /\ algorithm' = algorithm /\ state' = state]_vars
    /\ [][result.inner = "Break" =>
            /\ algorithm' = algorithm
            /\ state'.age = state.age /\ state'.maze = state.maze
            /\ outcome' = "exit"]_vars

\* a key is pressed in the second frame or later of Wilson's run
C16_Witness ==
    /\ result.inner = "Break"
    /\ algorithm.kind = "Wilson"
    /\ frames >= 2
    /\ \E i \in DOMAIN state.age : state.age[i] >= 1

Ticked(age) == IF age = None THEN None ELSE IF age < 255 THEN age + 1 ELSE 255

\* C17: a step that returns Continue is followed by the render, then the tick,
\* then the poll, then the next step; a step that returns Done ends the run.
\* The render and the poll leave state and algorithm alone; the tick adds one
\* to every present age below 255, leaves 255 and absent ages as they are and
\* changes nothing else.
C17_FrameOrder ==
    /\ [][pc.run = "step" =>
            \/ signal' = "Continue" /\ pc'.run = "render"
            \/ signal' = "Done" /\ pc'.run = "returned"]_vars
    /\ [][pc.run = "render" =>
            \/ outcome' = "render" /\ pc'.run = "tick"
                    /\ state' = state /\ algorithm' = algorithm
            \/ result'.inner = "Io" /\ pc'.run = "returned"]_vars
    /\ [][pc.run = "tick" =>
            /\ outcome' = "tick" /\ pc'.run = "poll"
            /\ algorithm' = algorithm
            /\ state' = [state EXCEPT !.age = [i \in DOMAIN state.age |-> Ticked(state.age[i])]]]_vars
    /\ [][pc.run = "poll" =>
            \/ outcome' = "poll" /\ pc'.run = "step"
                    /\ state' = state /\ algorithm' = algorithm
            \/ result'.inner \in {"Io", "Break"} /\ pc'.run = "returned"]_vars
    /\ [][pc.run \in {"new", "returned"} => outcome' \notin {"render", "tick", "poll"}]_vars

\* the 253rd tick of the fade after solving: the age of a node visited early
\* is held at 255 while that of the node visited last still grows
C17_Witness ==
    /\ outcome = "tick"
    /\ pc.main = "fade_out"
    /\ algorithm.steps = 2
    /\ \E i \in DOMAIN state.age : state.age[i] = 255
    /\ \E i \in DOMAIN state.age : state.age[i] = 253

\* generation has signalled Done, or the program is past it
GenerationDone ==
    \/ pc.main \notin {"setup", "generate"}
    \/ signal = "Done" /\ algorithm.kind \in Generators

\* C20: once generation has signalled Done no step changes any edge's open
\* flag: not a fade or the flash transition, not solve::state or walk::state,
\* not a solver, not the Walker. flash_between takes start, goal and parents
\* from solve::state and leaves them as they are, and it returns a state in
\* which every age is absent.
C20_MazeFixedAfterGeneration ==
    [][/\ GenerationDone => state'.maze.open = state.maze.open
       /\ (pc.main = "flash_delay" /\ pc'.main = "flash") =>
            state'.phase = solve_state(state).phase
       /\ pc.main = "flash" => state'.phase = state.phase
       /\ (pc.main = "flash" /\ pc'.main = "solve") =>
            \A i \in DOMAIN state'.age : state'.age[i] = None]_vars

\* the Walker has finished on a maze that went through the flash with every
\* age filled in: the open edges are still the generator's spanning tree
C20_Witness ==
    /\ pc.main = "walk"
    /\ algorithm.kind = "Walker"
    /\ signal = "Done"
    /\ ~state.settings.ansi
    /\ \E i \in DOMAIN state.phase.on_path : state.phase.on_path[i]
    /\ Cardinality(OpenSlots(state.maze)) = state.maze.width * state.maze.height - 1

====
